---- MODULE Spec2Model ----
(***************************************************************************)
(* Model of src/utils/appLockStorage.ts: the Unicode text formatter        *)
(* (toUnicodeStyle, removeUnicodeFormatting, detectCharEmphasis,           *)
(* convertPreservingEmphasis), the list functions, copyStyledText and the  *)
(* app lock settings (enableAppLock, disableAppLock and the mutators).     *)
(*                                                                         *)
(* A JavaScript string is a sequence of UTF-16 code units, modelled as a   *)
(* sequence of naturals.  text.split('') cuts a string into its code       *)
(* units, Array.from(text) into its code points (a high surrogate followed *)
(* by a low surrogate is one element), and String.fromCodePoint encodes a  *)
(* code point above U+FFFF as a surrogate pair: the model keeps the three  *)
(* apart, as the code does.                                                *)
(***************************************************************************)
EXTENDS Integers, Sequences, FiniteSets, TLC

VARIABLES text, calls, cur,
          clipboardApi, copyPc, writeCalls, clipboard, copyResult,
          storage, inflight, started, now, returned, disabledSince, enableFree, solo,
          pendingConflicts, conflictListeners, stack, received,
          geofenceStates, checks, events, observed,
          initialized, permissionGranted, pushListeners, initCalls, initStarted

\* the formatter under call: the argument of the first call, the functions
\* called so far, the string the last call returned
formatterVars == <<text, calls, cur>>

\* copyStyledText under call: whether navigator.clipboard exists, where the
\* call stands, the writeText calls made, the strings written to the
\* clipboard, how the returned promise settled
copyVars == <<clipboardApi, copyPc, writeCalls, clipboard, copyResult>>

\* the app lock: the settings store, the calls in flight with their locals,
\* the number of calls started, the clock, the call that returned last with
\* the value it returned, whether disableAppLock has completed with no
\* enableAppLock called since, the disableAppLock calls in flight during
\* which no enableAppLock was called or in flight, and the call that has
\* run with no other call in flight, with the settings stored and the time
\* when it was made
lockVars == <<storage, inflight, started, now, returned, disabledSince, enableFree, solo>>

\* the sync conflicts: the pending list, the entries of the listener Set in
\* insertion order (a deleted entry stays as an empty slot while the Set is
\* iterated), the notifications under way (innermost first), and what each
\* registered listener was last called with
conflictVars == <<pendingConflicts, conflictListeners, stack, received>>

\* the geofences: the Map of the recorded inside/outside status per task,
\* the checkGeofences calls in flight, the geofenceTriggered events
\* dispatched, and the inside/outside status each check observed
geofenceVars == <<geofenceStates, checks, events, observed>>

\* the NotificationManager singleton: its fields, the listeners registered
\* with PushNotifications, the initialize calls in flight and their number
pushVars == <<initialized, permissionGranted, pushListeners, initCalls, initStarted>>

vars == <<formatterVars, copyVars, lockVars, conflictVars, geofenceVars, pushVars>>

\* no call of copyStyledText has been made
NoCopy ==
  /\ clipboardApi = TRUE
  /\ copyPc = "idle"
  /\ writeCalls = 0
  /\ clipboard = <<>>
  /\ copyResult = [state |-> "pending", value |-> FALSE]

\* no conflict pending, no listener registered
NoConflicts ==
  /\ pendingConflicts = <<>>
  /\ conflictListeners = <<>>
  /\ stack = <<>>
  /\ received = <<>>

\* no status recorded, no check made
NoGeofence ==
  /\ geofenceStates = <<>>
  /\ checks = {}
  /\ events = <<>>
  /\ observed = <<>>

\* the singleton as constructed, initialize not called
NoPush ==
  /\ initialized = FALSE
  /\ permissionGranted = FALSE
  /\ pushListeners = <<>>
  /\ initCalls = {}
  /\ initStarted = 0

\* nothing stored, no call of the app lock made
NoAppLock ==
  /\ storage = <<>>
  /\ inflight = {}
  /\ started = 0
  /\ now = 1
  /\ returned = [id |-> 0, op |-> "none", value |-> "undefined"]
  /\ disabledSince = FALSE
  /\ enableFree = {}
  /\ solo = [id |-> 0, before |-> <<>>, since |-> 0]

-----------------------------------------------------------------------------
(* JavaScript string primitives *)

RECURSIVE Join(_)
Join(parts) ==
  IF parts = <<>> THEN <<>> ELSE Head(parts) \o Join(Tail(parts))

fromCodePoint(cp) ==
  IF cp < \H10000
  THEN <<cp>>
  ELSE <<\HD800 + ((cp - \H10000) \div \H400), \HDC00 + ((cp - \H10000) % \H400)>>

isHighSurrogate(u) == u >= \HD800 /\ u <= \HDBFF
isLowSurrogate(u) == u >= \HDC00 /\ u <= \HDFFF

\* text.split(''): one element per UTF-16 code unit
Split(s) == [i \in 1..Len(s) |-> <<s[i]>>]

\* Array.from(text): one element per code point
RECURSIVE ArrayFrom(_)
ArrayFrom(s) ==
  IF s = <<>> THEN <<>>
  ELSE IF Len(s) >= 2 /\ isHighSurrogate(s[1]) /\ isLowSurrogate(s[2])
       THEN <<SubSeq(s, 1, 2)>> \o ArrayFrom(SubSeq(s, 3, Len(s)))
       ELSE <<SubSeq(s, 1, 1)>> \o ArrayFrom(Tail(s))

-----------------------------------------------------------------------------
(* charMaps *)

StyleOrder ==
  <<"bold", "italic", "boldItalic", "boldSans", "sansNormal", "italicSans",
    "boldItalicSans", "script", "monospace", "doublestruck">>

upperAlphabet == [i \in 1..26 |-> 64 + i]
lowerAlphabet == [i \in 1..26 |-> 96 + i]
digitAlphabet == [i \in 1..10 |-> 47 + i]

upperBase(style) ==
  CASE style = "bold" -> \H1D400
    [] style = "italic" -> \H1D434
    [] style = "boldItalic" -> \H1D468
    [] style = "boldSans" -> \H1D5D4
    [] style = "sansNormal" -> \H1D5A0
    [] style = "italicSans" -> \H1D608
    [] style = "boldItalicSans" -> \H1D63C
    [] style = "script" -> \H1D49C
    [] style = "monospace" -> \H1D670
    [] style = "doublestruck" -> \H1D538

\* mutant: the lower tables built with the offsets of the upper tables
lowerBase_copyPaste(style) == upperBase(style)

lowerBase(style) ==
  CASE style = "bold" -> \H1D41A
    [] style = "italic" -> \H1D44E
    [] style = "boldItalic" -> \H1D482
    [] style = "boldSans" -> \H1D5EE
    [] style = "sansNormal" -> \H1D5BA
    [] style = "italicSans" -> \H1D622
    [] style = "boldItalicSans" -> \H1D656
    [] style = "script" -> \H1D4B6
    [] style = "monospace" -> \H1D68A
    [] style = "doublestruck" -> \H1D552

hasDigits(style) ==
  style \in {"bold", "boldSans", "sansNormal", "monospace", "doublestruck"}

\* mutant: every digit table built on the block of the bold digits
digitsBase_sharedBlock(style) == \H1D7CE

digitsBase(style) ==
  CASE style = "bold" -> \H1D7CE
    [] style = "boldSans" -> \H1D7EC
    [] style = "sansNormal" -> \H1D7E2
    [] style = "monospace" -> \H1D7F6
    [] style = "doublestruck" -> \H1D7D8

\* the `special` records of the script and doublestruck tables and the
\* `char === 'h'` branch of the italic table: ASCII code unit -> code point
scriptUpperSpecial ==
  (66 :> \H212C) @@ (69 :> \H2130) @@ (70 :> \H2131) @@ (72 :> \H210B) @@
  (73 :> \H2110) @@ (76 :> \H2112) @@ (77 :> \H2133) @@ (82 :> \H211B) @@
  (101 :> \H212F) @@ (103 :> \H210A) @@ (111 :> \H2134)

scriptLowerSpecial ==
  (101 :> \H212F) @@ (103 :> \H210A) @@ (111 :> \H2134)

doublestruckUpperSpecial ==
  (67 :> \H2102) @@ (72 :> \H210D) @@ (78 :> \H2115) @@ (80 :> \H2119) @@
  (81 :> \H211A) @@ (82 :> \H211D) @@ (90 :> \H2124)

\* mutant: the doublestruck table without its special record
upperEntry_noDoublestruckSpecial(style, c, i) ==
  IF style = "script" /\ c \in DOMAIN scriptUpperSpecial
  THEN fromCodePoint(scriptUpperSpecial[c])
  ELSE fromCodePoint(upperBase(style) + i)

\* the reduce() callbacks: entry of the i-th character (0-based) of the alphabet
upperEntry(style, c, i) ==
  IF style = "script" /\ c \in DOMAIN scriptUpperSpecial
  THEN fromCodePoint(scriptUpperSpecial[c])
  ELSE IF style = "doublestruck" /\ c \in DOMAIN doublestruckUpperSpecial
  THEN fromCodePoint(doublestruckUpperSpecial[c])
  ELSE fromCodePoint(upperBase(style) + i)

lowerEntry(style, c, i) ==
  IF style = "italic" /\ c = 104
  THEN fromCodePoint(\H210E)
  ELSE IF style = "script" /\ c \in DOMAIN scriptLowerSpecial
  THEN fromCodePoint(scriptLowerSpecial[c])
  ELSE fromCodePoint(lowerBase(style) + i)

digitsEntry(style, c, i) == fromCodePoint(digitsBase(style) + i)

\* charMaps[style].upper / .lower / .digits as functions from a single
\* ASCII code unit to the styled string
charMapsUpper ==
  [style \in {StyleOrder[k] : k \in DOMAIN StyleOrder} |->
    [c \in 65..90 |-> upperEntry(style, c, c - 65)]]

charMapsLower ==
  [style \in {StyleOrder[k] : k \in DOMAIN StyleOrder} |->
    [c \in 97..122 |-> lowerEntry(style, c, c - 97)]]

charMapsDigits ==
  [style \in {s \in {StyleOrder[k] : k \in DOMAIN StyleOrder} : hasDigits(s)} |->
    [c \in 48..57 |-> digitsEntry(style, c, c - 48)]]

\* Object.entries over one style, in the order upper, lower, digits
styleEntries(style) ==
  [i \in 1..26 |-> [style |-> style, plain |-> <<upperAlphabet[i]>>,
                    unicode |-> charMapsUpper[style][upperAlphabet[i]]]]
  \o [i \in 1..26 |-> [style |-> style, plain |-> <<lowerAlphabet[i]>>,
                       unicode |-> charMapsLower[style][lowerAlphabet[i]]]]
  \o (IF hasDigits(style)
      THEN [i \in 1..10 |-> [style |-> style, plain |-> <<digitAlphabet[i]>>,
                             unicode |-> charMapsDigits[style][digitAlphabet[i]]]]
      ELSE <<>>)

\* Object.values(charMaps) / Object.entries(charMaps) flattened, in order
charMapsEntries == Join([k \in DOMAIN StyleOrder |-> styleEntries(StyleOrder[k])])

-----------------------------------------------------------------------------
(* Combining characters *)

COMBINING_UNDERLINE == \H0332
COMBINING_STRIKETHROUGH == \H0336


\* mutant: the marker appended once to the whole text, not to each character
appendMarker_atEnd(s, mark) == s \o <<mark>>

\* text.split('').map(char => char + mark).join('')
appendMarker(s, mark) ==
  Join([i \in 1..Len(s) |-> Split(s)[i] \o <<mark>>])

-----------------------------------------------------------------------------
(* toUnicodeStyle *)

CharMapStyles == {StyleOrder[k] : k \in DOMAIN StyleOrder}

UnicodeStyle ==
  CharMapStyles \cup {"underline", "strikethrough", "boldUnderline", "boldStrikethrough"}

\* mutant: a style without digit table falls back to the bold digits
styleChar_digitFallback(style, char) ==
  LET c == char[1] IN
  IF c \in DOMAIN charMapsUpper[style] THEN charMapsUpper[style][c]
  ELSE IF c \in DOMAIN charMapsLower[style] THEN charMapsLower[style][c]
  ELSE IF c \in DOMAIN charMapsDigits["bold"]
  THEN charMapsDigits[IF hasDigits(style) THEN style ELSE "bold"][c]
  ELSE char

\* the callback of the final map(): char is one UTF-16 code unit
styleChar(style, char) ==
  LET c == char[1] IN
  IF c \in DOMAIN charMapsUpper[style] THEN charMapsUpper[style][c]
  ELSE IF c \in DOMAIN charMapsLower[style] THEN charMapsLower[style][c]
  ELSE IF hasDigits(style) /\ c \in DOMAIN charMapsDigits[style]
  THEN charMapsDigits[style][c]
  ELSE char

RECURSIVE toUnicodeStyle(_, _)
toUnicodeStyle(s, style) ==
  IF s = <<>> THEN <<>>
  ELSE IF style = "underline" THEN appendMarker(s, COMBINING_UNDERLINE)
  ELSE IF style = "strikethrough" THEN appendMarker(s, COMBINING_STRIKETHROUGH)
  ELSE IF style = "boldUnderline"
  THEN appendMarker(toUnicodeStyle(s, "bold"), COMBINING_UNDERLINE)
  ELSE IF style = "boldStrikethrough"
  THEN appendMarker(toUnicodeStyle(s, "bold"), COMBINING_STRIKETHROUGH)
  ELSE IF style \notin CharMapStyles THEN s
  ELSE Join([i \in 1..Len(s) |-> styleChar(style, Split(s)[i])])

-----------------------------------------------------------------------------
(* removeUnicodeFormatting *)

\* mutant: the pattern holds the underline mark only
stripCombining_underlineOnly(s) ==
  SelectSeq(s, LAMBDA u : u # COMBINING_UNDERLINE)

\* text.replace(new RegExp('[' + both markers + ']', 'g'), '')
stripCombining(s) ==
  SelectSeq(s, LAMBDA u : u # COMBINING_UNDERLINE /\ u # COMBINING_STRIKETHROUGH)

\* reverseMap[unicode] = plain over all tables in order: a later entry
\* overwrites an earlier one with the same key
reverseMap ==
  [u \in {charMapsEntries[i].unicode : i \in DOMAIN charMapsEntries} |->
    LET last == CHOOSE i \in DOMAIN charMapsEntries :
                  /\ charMapsEntries[i].unicode = u
                  /\ \A j \in DOMAIN charMapsEntries :
                       charMapsEntries[j].unicode = u => j <= i
    IN charMapsEntries[last].plain]

\* reverseMap[char] || char
plainOf(char) == IF char \in DOMAIN reverseMap THEN reverseMap[char] ELSE char

\* mutant: the result cut by split('') into code units, not by Array.from
removeUnicodeFormatting_bySplit(s, preserveCombining) ==
  LET result == IF preserveCombining THEN s ELSE stripCombining(s)
      chars == Split(result)
  IN Join([i \in 1..Len(chars) |-> plainOf(chars[i])])

removeUnicodeFormatting(s, preserveCombining) ==
  LET result == IF preserveCombining THEN s ELSE stripCombining(s)
      chars == ArrayFrom(result)
  IN Join([i \in 1..Len(chars) |-> plainOf(chars[i])])

-----------------------------------------------------------------------------
(* detectCharEmphasis *)

\* mutant: the sans styles left out of the classification
emphasisOfStyle_serifOnly(styleName) ==
  IF styleName = "bold" THEN "bold"
  ELSE IF styleName = "italic" THEN "italic"
  ELSE IF styleName = "boldItalic" THEN "boldItalic"
  ELSE "none"

emphasisOfStyle(styleName) ==
  IF styleName = "bold" \/ styleName = "boldSans" THEN "bold"
  ELSE IF styleName = "italic" \/ styleName = "italicSans" THEN "italic"
  ELSE IF styleName = "boldItalic" \/ styleName = "boldItalicSans" THEN "boldItalic"
  ELSE "none"

\* index of the first table entry equal to each styled string, in scan order
firstOwner ==
  [u \in {charMapsEntries[i].unicode : i \in DOMAIN charMapsEntries} |->
    CHOOSE i \in DOMAIN charMapsEntries :
      /\ charMapsEntries[i].unicode = u
      /\ \A j \in DOMAIN charMapsEntries :
           charMapsEntries[j].unicode = u => i <= j]

detectCharEmphasis(char) ==
  IF char \in DOMAIN firstOwner
  THEN [plain |-> charMapsEntries[firstOwner[char]].plain,
        emphasis |-> emphasisOfStyle(charMapsEntries[firstOwner[char]].style)]
  ELSE [plain |-> char, emphasis |-> "none"]

-----------------------------------------------------------------------------
(* convertPreservingEmphasis *)

variantEmphasisMap ==
  [normal |-> [none |-> "plain", bold |-> "bold", italic |-> "italic", boldItalic |-> "boldItalic"],
   bold |-> [none |-> "bold", bold |-> "bold", italic |-> "boldItalic", boldItalic |-> "boldItalic"],
   italic |-> [none |-> "italic", bold |-> "boldItalic", italic |-> "italic", boldItalic |-> "boldItalic"],
   boldItalic |-> [none |-> "boldItalic", bold |-> "boldItalic", italic |-> "boldItalic", boldItalic |-> "boldItalic"],
   sansNormal |-> [none |-> "sansNormal", bold |-> "boldSans", italic |-> "italicSans", boldItalic |-> "boldItalicSans"],
   boldSans |-> [none |-> "boldSans", bold |-> "boldSans", italic |-> "boldItalicSans", boldItalic |-> "boldItalicSans"],
   italicSans |-> [none |-> "italicSans", bold |-> "boldItalicSans", italic |-> "italicSans", boldItalic |-> "boldItalicSans"],
   boldItalicSans |-> [none |-> "boldItalicSans", bold |-> "boldItalicSans", italic |-> "boldItalicSans", boldItalic |-> "boldItalicSans"],
   script |-> [none |-> "script", bold |-> "script", italic |-> "script", boldItalic |-> "script"],
   monospace |-> [none |-> "monospace", bold |-> "monospace", italic |-> "monospace", boldItalic |-> "monospace"],
   doublestruck |-> [none |-> "doublestruck", bold |-> "doublestruck", italic |-> "doublestruck", boldItalic |-> "doublestruck"]]

\* variantEmphasisMap is an object literal: a property read also finds the
\* properties it inherits from Object.prototype, and those values are truthy
ObjectPrototypeKeys ==
  {"constructor", "toString", "toLocaleString", "valueOf", "hasOwnProperty",
   "isPrototypeOf", "propertyIsEnumerable", "__proto__"}

\* !emphasisMapping is false
hasEmphasisMapping(targetVariant) ==
  targetVariant \in DOMAIN variantEmphasisMap \/ targetVariant \in ObjectPrototypeKeys

\* mutant: the variant's style for emphasis none, whatever the emphasis
targetStyleOf_flat(targetVariant, emphasis) ==
  IF targetVariant \in DOMAIN variantEmphasisMap
  THEN variantEmphasisMap[targetVariant]["none"]
  ELSE "undefined"

\* emphasisMapping[emphasis]; an inherited value has no emphasis property
targetStyleOf(targetVariant, emphasis) ==
  IF targetVariant \in DOMAIN variantEmphasisMap
  THEN variantEmphasisMap[targetVariant][emphasis]
  ELSE "undefined"

isCombining(char) ==
  char = <<COMBINING_UNDERLINE>> \/ char = <<COMBINING_STRIKETHROUGH>>

\* the for loop over chars: cleanChars, and combiningChars keyed by the
\* 0-based index of the last clean character (-1 before the first one);
\* a key never written reads as the empty list
RECURSIVE separateCombining(_, _, _, _)
separateCombining(chars, i, cleanChars, combiningChars) ==
  IF i > Len(chars)
  THEN [cleanChars |-> cleanChars, combiningChars |-> combiningChars]
  ELSE IF isCombining(chars[i])
  THEN LET lastIdx == Len(cleanChars) - 1 IN
       separateCombining(chars, i + 1, cleanChars,
         [combiningChars EXCEPT ![lastIdx] = Append(@, chars[i])])
  ELSE separateCombining(chars, i + 1, Append(cleanChars, chars[i]), combiningChars)

\* mutant: the styled character itself restyled, not its plain character
convertChar_restyleStyled(char, idx, targetVariant, combiningChars) ==
  LET d == detectCharEmphasis(char)
      targetStyle == targetStyleOf(targetVariant, d.emphasis)
      converted == IF targetStyle = "plain" THEN d.plain
                   ELSE toUnicodeStyle(char, targetStyle)
  IN converted \o Join(combiningChars[idx])

\* the callback of cleanChars.map(): idx is 0-based
convertChar(char, idx, targetVariant, combiningChars) ==
  LET d == detectCharEmphasis(char)
      targetStyle == targetStyleOf(targetVariant, d.emphasis)
      converted == IF targetStyle = "plain" THEN d.plain
                   ELSE toUnicodeStyle(d.plain, targetStyle)
  IN converted \o Join(combiningChars[idx])

convertPreservingEmphasis(s, targetVariant) ==
  IF ~hasEmphasisMapping(targetVariant) THEN s
  ELSE LET chars == ArrayFrom(s)
           sep == separateCombining(chars, 1, <<>>, [k \in -1..Len(chars) |-> <<>>])
       IN Join([k \in 1..Len(sep.cleanChars) |->
                 convertChar(sep.cleanChars[k], k - 1, targetVariant, sep.combiningChars)])

-----------------------------------------------------------------------------
(* The formatter under call: a text is handed to one of the three exported *)
(* functions; text that toUnicodeStyle returned may then be handed to      *)
(* removeUnicodeFormatting (the editor's "clear formatting" and "Normal"   *)
(* variant of text styled before).                                         *)

MaxLen == 2

\* characters the input texts are made of: ASCII letters whose tables hold
\* exceptions (H: script, doublestruck; h: italic), a digit, punctuation
PlainChars == {<<72>>, <<104>>, <<55>>, <<33>>}

MarkChars == {<<COMBINING_UNDERLINE>>, <<COMBINING_STRIKETHROUGH>>}

\* already styled characters: h in every table (italic h is the BMP
\* exception), and a bold digit
StyledChars ==
  {charMapsLower[style][104] : style \in CharMapStyles}
  \cup {charMapsDigits["bold"][55]}

\* halves of a surrogate pair on their own (the two halves of bold h), as
\* text.split('') leaves them
LoneSurrogates == {<<\HD835>>, <<\HDC21>>}

Atoms == PlainChars \cup MarkChars \cup StyledChars \cup LoneSurrogates

Texts ==
  UNION {{Join(t) : t \in [1..n -> Atoms]} : n \in 0..MaxLen}

\* targetVariant is any string: the 11 variants, other style and list ids of
\* the editor, the empty string, and a name every object inherits
TargetVariants ==
  DOMAIN variantEmphasisMap \cup {"underline", "bullet", "numbered", "", "constructor"}

Init ==
  /\ text \in Texts
  /\ calls = <<>>
  /\ cur = text
  /\ NoCopy
  /\ NoAppLock
  /\ NoConflicts
  /\ NoGeofence
  /\ NoPush

ToUnicodeStyle(style) ==
  /\ calls = <<>>
  /\ cur' = toUnicodeStyle(cur, style)
  /\ calls' = Append(calls, [fn |-> "toUnicodeStyle", arg |-> style])
  /\ UNCHANGED <<text, copyVars, lockVars, conflictVars, geofenceVars, pushVars>>

RemoveUnicodeFormatting(preserveCombining) ==
  /\ \/ calls = <<>>
     \/ Len(calls) = 1 /\ calls[1].fn = "toUnicodeStyle"
  /\ cur' = removeUnicodeFormatting(cur, preserveCombining)
  /\ calls' = Append(calls, [fn |-> "removeUnicodeFormatting",
                            arg |-> IF preserveCombining THEN "true" ELSE "false"])
  /\ UNCHANGED <<text, copyVars, lockVars, conflictVars, geofenceVars, pushVars>>

ConvertPreservingEmphasis(targetVariant) ==
  /\ calls = <<>>
  /\ cur' = convertPreservingEmphasis(cur, targetVariant)
  /\ calls' = Append(calls, [fn |-> "convertPreservingEmphasis", arg |-> targetVariant])
  /\ UNCHANGED <<text, copyVars, lockVars, conflictVars, geofenceVars, pushVars>>

Next ==
  \/ \E style \in UnicodeStyle : ToUnicodeStyle(style)
  \/ \E preserveCombining \in BOOLEAN : RemoveUnicodeFormatting(preserveCombining)
  \/ \E targetVariant \in TargetVariants : ConvertPreservingEmphasis(targetVariant)

Spec == Init /\ [][Next]_vars

-----------------------------------------------------------------------------
(* List formatting: toBulletList, toNumberedList, toCheckboxList,          *)
(* toAscendingList, toDescendingList                                       *)

\* String.prototype.trim removes WhiteSpace and LineTerminator code units
isWhiteSpace(u) ==
  u \in {\H0009, \H000A, \H000B, \H000C, \H000D, \H0020, \H00A0, \H1680,
         \H2028, \H2029, \H202F, \H205F, \H3000, \HFEFF}
        \cup (\H2000..\H200A)

RECURSIVE trimStart(_)
trimStart(s) ==
  IF s # <<>> /\ isWhiteSpace(Head(s)) THEN trimStart(Tail(s)) ELSE s

RECURSIVE trimEnd(_)
trimEnd(s) ==
  IF s # <<>> /\ isWhiteSpace(s[Len(s)])
  THEN trimEnd(SubSeq(s, 1, Len(s) - 1))
  ELSE s

trim(s) == trimEnd(trimStart(s))

\* text.split('\n'): the pieces between the line feeds, '' gives ['']
RECURSIVE splitLines(_, _)
splitLines(s, piece) ==
  IF s = <<>> THEN <<piece>>
  ELSE IF Head(s) = \H000A
  THEN <<piece>> \o splitLines(Tail(s), <<>>)
  ELSE splitLines(Tail(s), Append(piece, Head(s)))

\* parts.join('\n')
RECURSIVE joinLines(_)
joinLines(parts) ==
  IF parts = <<>> THEN <<>>
  ELSE IF Len(parts) = 1 THEN parts[1]
  ELSE parts[1] \o <<\H000A>> \o joinLines(Tail(parts))

\* text.split('\n').filter(line => line.trim()): '' is falsy
nonBlankLines(s) ==
  SelectSeq(splitLines(s, <<>>), LAMBDA line : trim(line) # <<>>)

\* Number.prototype.toString of a positive integer, as ASCII digits
RECURSIVE numberToString(_)
numberToString(n) ==
  IF n < 10 THEN <<48 + n>>
  ELSE numberToString(n \div 10) \o <<48 + (n % 10)>>

\* mutant: the line prefixed as it is, not trimmed
prefixedList_untrimmed(s, marker) ==
  joinLines([k \in 1..Len(nonBlankLines(s)) |->
              marker \o <<\H0020>> \o nonBlankLines(s)[k]])

\* lines.map(line => `<marker> ${line.trim()}`).join('\n')
prefixedList(s, marker) ==
  joinLines([k \in 1..Len(nonBlankLines(s)) |->
              marker \o <<\H0020>> \o trim(nonBlankLines(s)[k])])

toBulletList(s) == prefixedList(s, <<\H2022>>)
toCheckboxList(s) == prefixedList(s, <<\H2610>>)
toAscendingList(s) == prefixedList(s, <<\H2197>>)
toDescendingList(s) == prefixedList(s, <<\H2198>>)

\* mutant: the ordinal is the index of the line in the unfiltered input
toNumberedList_inputIndex(s) ==
  LET all == splitLines(s, <<>>)
      kept == SelectSeq([k \in 1..Len(all) |-> <<k, all[k]>>],
                        LAMBDA p : trim(p[2]) # <<>>)
  IN joinLines([k \in 1..Len(kept) |->
                 numberToString(kept[k][1]) \o <<\H002E, \H0020>> \o trim(kept[k][2])])

\* lines.map((line, i) => `${i + 1}. ${line.trim()}`).join('\n')
toNumberedList(s) ==
  joinLines([k \in 1..Len(nonBlankLines(s)) |->
              numberToString((k - 1) + 1) \o <<\H002E, \H0020>> \o trim(nonBlankLines(s)[k])])

MaxListLen == 5

\* characters of the texts handed to the list functions: two letters, a
\* space and a line feed
ListChars == {97, 98, 32, 10}

ListTexts == UNION {[1..n -> ListChars] : n \in 0..MaxListLen}

ListFunctions ==
  {"toBulletList", "toNumberedList", "toCheckboxList", "toAscendingList",
   "toDescendingList"}

ListInit ==
  /\ text \in ListTexts
  /\ calls = <<>>
  /\ cur = text
  /\ NoCopy
  /\ NoAppLock
  /\ NoConflicts
  /\ NoGeofence
  /\ NoPush

ToBulletList ==
  /\ calls = <<>>
  /\ cur' = toBulletList(cur)
  /\ calls' = Append(calls, [fn |-> "toBulletList", arg |-> ""])
  /\ UNCHANGED <<text, copyVars, lockVars, conflictVars, geofenceVars, pushVars>>

ToNumberedList ==
  /\ calls = <<>>
  /\ cur' = toNumberedList(cur)
  /\ calls' = Append(calls, [fn |-> "toNumberedList", arg |-> ""])
  /\ UNCHANGED <<text, copyVars, lockVars, conflictVars, geofenceVars, pushVars>>

ToCheckboxList ==
  /\ calls = <<>>
  /\ cur' = toCheckboxList(cur)
  /\ calls' = Append(calls, [fn |-> "toCheckboxList", arg |-> ""])
  /\ UNCHANGED <<text, copyVars, lockVars, conflictVars, geofenceVars, pushVars>>

ToAscendingList ==
  /\ calls = <<>>
  /\ cur' = toAscendingList(cur)
  /\ calls' = Append(calls, [fn |-> "toAscendingList", arg |-> ""])
  /\ UNCHANGED <<text, copyVars, lockVars, conflictVars, geofenceVars, pushVars>>

ToDescendingList ==
  /\ calls = <<>>
  /\ cur' = toDescendingList(cur)
  /\ calls' = Append(calls, [fn |-> "toDescendingList", arg |-> ""])
  /\ UNCHANGED <<text, copyVars, lockVars, conflictVars, geofenceVars, pushVars>>

ListNext ==
  \/ ToBulletList
  \/ ToNumberedList
  \/ ToCheckboxList
  \/ ToAscendingList
  \/ ToDescendingList

SpecList == ListInit /\ [][ListNext]_vars

-----------------------------------------------------------------------------
(* copyStyledText *)

\* return true after the awaited writeText: the promise fulfils with true
tryBlock == [state |-> "fulfilled", value |-> TRUE]

\* mutant: no catch, the error leaves the function and the promise rejects
catchBlock_rethrow == [state |-> "rejected", value |-> FALSE]

\* catch (error) { console.error(...); return false; }
catchBlock == [state |-> "fulfilled", value |-> FALSE]

CopyInit ==
  /\ text \in Texts
  /\ calls = <<>>
  /\ cur = text
  /\ clipboardApi \in BOOLEAN
  /\ copyPc = "idle"
  /\ writeCalls = 0
  /\ clipboard = <<>>
  /\ copyResult = [state |-> "pending", value |-> FALSE]
  /\ NoAppLock
  /\ NoConflicts
  /\ NoGeofence
  /\ NoPush

\* the call up to its await: navigator.clipboard.writeText(text) is
\* evaluated inside try; without navigator.clipboard the property access
\* throws a TypeError there and the catch block runs
CopyStyledText ==
  /\ copyPc = "idle"
  /\ IF clipboardApi
     THEN /\ writeCalls' = writeCalls + 1
          /\ copyPc' = "awaiting"
          /\ UNCHANGED copyResult
     ELSE /\ copyPc' = "settled"
          /\ copyResult' = catchBlock
          /\ UNCHANGED writeCalls
  /\ UNCHANGED <<clipboardApi, clipboard, formatterVars, lockVars, conflictVars, geofenceVars, pushVars>>

\* the platform writes the text and fulfils the promise of writeText
WriteTextFulfils ==
  /\ copyPc = "awaiting"
  /\ clipboard' = Append(clipboard, text)
  /\ copyPc' = "settled"
  /\ copyResult' = tryBlock
  /\ UNCHANGED <<clipboardApi, writeCalls, formatterVars, lockVars, conflictVars, geofenceVars, pushVars>>

\* the platform refuses (permission, focus) and rejects the promise
WriteTextRejects ==
  /\ copyPc = "awaiting"
  /\ copyPc' = "settled"
  /\ copyResult' = catchBlock
  /\ UNCHANGED <<clipboardApi, writeCalls, clipboard, formatterVars, lockVars, conflictVars, geofenceVars, pushVars>>

CopyNext ==
  \/ CopyStyledText
  \/ WriteTextFulfils
  \/ WriteTextRejects

SpecCopy == CopyInit /\ [][CopyNext]_vars

-----------------------------------------------------------------------------
(* App lock settings *)

null == "null"

\* lastUnlockTime: number | null; Date.now() is positive, null is kept as 0
\* (the code tests it with !settings.lastUnlockTime only)
nullTime == 0

DEFAULT_SETTINGS ==
  [isEnabled |-> FALSE,
   pinHash |-> null,
   securityQuestions |-> <<>>,
   biometricEnabled |-> FALSE,
   lockTiming |-> "immediately",
   lastUnlockTime |-> nullTime]

\* SHA-256 of pin + 'npd-salt-2024' in lower-case hex, for the pins of Pins
hashPin(pin) ==
  CASE pin = "1234" -> "c2cdd5b06ddb34f3531db907e1bf7ff0450381c17f5da940611c4b036368d530"
    [] pin = "5678" -> "04d70b7d6374a1cf771988b700ac9d374a9bf539b6ebfe6e5464a8bf8e9a5775"

\* mutant: any PIN is accepted
verifyPin_anyPin(pin, storedHash) == TRUE

\* inputHash === storedHash
verifyPin(pin, storedHash) == hashPin(pin) = storedHash

\* getSetting(key, defaultValue) of ./settingsStorage: the stored value, the
\* default when nothing is stored under the key
getSetting(key, defaultValue) ==
  IF key \in DOMAIN storage THEN storage[key] ELSE defaultValue

\* setSetting(key, value) of ./settingsStorage: the value replaces what is
\* stored under the key
setSetting(key, value) == storage' = (key :> value) @@ storage

\* what getAppLockSettings resolves to
getAppLockSettings == getSetting("appLockSettings", DEFAULT_SETTINGS)

MaxCalls == 3
MaxNow == 2

Pins == {"1234", "5678"}
SecurityQuestionLists == {<<[question |-> "pet", answer |-> "rex"]>>}
LockTimings == {"immediately", "30seconds"}

\* a call in flight: the await it is suspended at (pc) and its parameters
\* and locals, unset ones at their defaults
newCall(op, pc) ==
  [id |-> started + 1, op |-> op, pc |-> pc,
   pin |-> "", newPin |-> "", securityQuestions |-> <<>>,
   enabled |-> FALSE, timing |-> "immediately",
   settings |-> DEFAULT_SETTINGS, pinHash |-> null, toSave |-> DEFAULT_SETTINGS]

startCall(c) ==
  /\ started < MaxCalls
  /\ started' = started + 1
  /\ inflight' = inflight \cup {c}
  /\ solo' = IF inflight = {}
             THEN [id |-> c.id, before |-> getAppLockSettings, since |-> now]
             ELSE [id |-> 0, before |-> <<>>, since |-> 0]
  /\ UNCHANGED returned

resume(c, d) ==
  /\ inflight' = (inflight \ {c}) \cup {d}
  /\ UNCHANGED <<returned, solo>>

\* the promise of the call fulfils with value
return(c, value) ==
  /\ inflight' = inflight \ {c}
  /\ returned' = [id |-> c.id, op |-> c.op, value |-> value]
  /\ UNCHANGED solo

LockInit ==
  /\ text = <<>>
  /\ calls = <<>>
  /\ cur = <<>>
  /\ NoCopy
  /\ NoAppLock
  /\ NoConflicts
  /\ NoGeofence
  /\ NoPush

\* enableAppLock(pin, securityQuestions) up to await hashPin(pin)
EnableAppLock(pin, securityQuestions) ==
  /\ startCall([newCall("enableAppLock", "hashPin")
                  EXCEPT !.pin = pin, !.securityQuestions = securityQuestions])
  /\ disabledSince' = FALSE
  /\ enableFree' = {}
  /\ UNCHANGED <<storage, now, formatterVars, copyVars, conflictVars, geofenceVars, pushVars>>

\* disableAppLock() up to await setSetting(...) in saveAppLockSettings
DisableAppLock ==
  /\ startCall([newCall("disableAppLock", "setSetting")
                  EXCEPT !.toSave = DEFAULT_SETTINGS])
  /\ enableFree' =
       IF \A d \in inflight : d.op # "enableAppLock"
       THEN enableFree \cup {started + 1}
       ELSE enableFree
  /\ UNCHANGED <<storage, now, disabledSince, formatterVars, copyVars, conflictVars, geofenceVars, pushVars>>

\* setBiometricEnabled(enabled) up to await getAppLockSettings()
SetBiometricEnabled(enabled) ==
  /\ startCall([newCall("setBiometricEnabled", "getSetting")
                  EXCEPT !.enabled = enabled])
  /\ UNCHANGED <<storage, now, disabledSince, enableFree, formatterVars, copyVars, conflictVars, geofenceVars, pushVars>>

\* setLockTiming(timing) up to await getAppLockSettings()
SetLockTiming(timing) ==
  /\ startCall([newCall("setLockTiming", "getSetting")
                  EXCEPT !.timing = timing])
  /\ UNCHANGED <<storage, now, disabledSince, enableFree, formatterVars, copyVars, conflictVars, geofenceVars, pushVars>>

\* updateLastUnlockTime() up to await getAppLockSettings()
UpdateLastUnlockTime ==
  /\ startCall(newCall("updateLastUnlockTime", "getSetting"))
  /\ UNCHANGED <<storage, now, disabledSince, enableFree, formatterVars, copyVars, conflictVars, geofenceVars, pushVars>>

\* resetPinWithSecurityQuestions(newPin) up to await getAppLockSettings()
ResetPinWithSecurityQuestions(newPin) ==
  /\ startCall([newCall("resetPinWithSecurityQuestions", "getSetting")
                  EXCEPT !.newPin = newPin])
  /\ UNCHANGED <<storage, now, disabledSince, enableFree, formatterVars, copyVars, conflictVars, geofenceVars, pushVars>>

\* changePin(oldPin, newPin) up to await getAppLockSettings()
ChangePin(oldPin, newPin) ==
  /\ startCall([newCall("changePin", "getSetting")
                  EXCEPT !.pin = oldPin, !.newPin = newPin])
  /\ UNCHANGED <<storage, now, disabledSince, enableFree, formatterVars, copyVars, conflictVars, geofenceVars, pushVars>>

\* mutant: enableAppLock leaves the pinHash of the record it read
recordToSave_noPinHash(c, settings) ==
  CASE c.op = "enableAppLock" ->
         [settings EXCEPT !.isEnabled = TRUE,
                          !.securityQuestions = c.securityQuestions,
                          !.lastUnlockTime = now]
    [] c.op = "setBiometricEnabled" -> [settings EXCEPT !.biometricEnabled = c.enabled]
    [] c.op = "setLockTiming" -> [settings EXCEPT !.lockTiming = c.timing]
    [] c.op = "updateLastUnlockTime" -> [settings EXCEPT !.lastUnlockTime = now]
    [] c.op \in {"resetPinWithSecurityQuestions", "changePin"} ->
         [settings EXCEPT !.pinHash = c.pinHash, !.lastUnlockTime = now]

\* the object literal { ...settings, <fields> } each function hands to
\* saveAppLockSettings; Date.now() is read when the literal is evaluated
recordToSave(c, settings) ==
  CASE c.op = "enableAppLock" ->
         [settings EXCEPT !.isEnabled = TRUE,
                          !.pinHash = c.pinHash,
                          !.securityQuestions = c.securityQuestions,
                          !.lastUnlockTime = now]
    [] c.op = "setBiometricEnabled" -> [settings EXCEPT !.biometricEnabled = c.enabled]
    [] c.op = "setLockTiming" -> [settings EXCEPT !.lockTiming = c.timing]
    [] c.op = "updateLastUnlockTime" -> [settings EXCEPT !.lastUnlockTime = now]
    [] c.op \in {"resetPinWithSecurityQuestions", "changePin"} ->
         [settings EXCEPT !.pinHash = c.pinHash, !.lastUnlockTime = now]

\* type LockTiming
LockTiming ==
  {"immediately", "30seconds", "1minute", "5minutes", "15minutes", "30minutes"}

\* timingMs: Record<LockTiming, number>
timingMs ==
  [timing \in LockTiming |->
     CASE timing = "immediately" -> 0
       [] timing = "30seconds" -> 30 * 1000
       [] timing = "1minute" -> 60 * 1000
       [] timing = "5minutes" -> 5 * 60 * 1000
       [] timing = "15minutes" -> 15 * 60 * 1000
       [] timing = "30minutes" -> 30 * 60 * 1000]

\* mutant: locked only after more than the delay
shouldAppBeLocked_strict(settings, dateNow) ==
  IF ~settings.isEnabled \/ settings.pinHash \in {null, ""}
  THEN FALSE
  ELSE IF settings.lastUnlockTime = nullTime
  THEN TRUE
  ELSE LET elapsed == dateNow - settings.lastUnlockTime
       IN elapsed > timingMs[settings.lockTiming]

\* shouldAppBeLocked after its await: settings is what getAppLockSettings
\* resolved to, dateNow what Date.now() returns
shouldAppBeLocked(settings, dateNow) ==
  IF ~settings.isEnabled \/ settings.pinHash \in {null, ""}
  THEN FALSE
  ELSE IF settings.lastUnlockTime = nullTime
  THEN TRUE
  ELSE LET elapsed == dateNow - settings.lastUnlockTime
       IN elapsed >= timingMs[settings.lockTiming]

\* shouldAppBeLocked() up to await getAppLockSettings()
ShouldAppBeLocked ==
  /\ startCall(newCall("shouldAppBeLocked", "getSetting"))
  /\ UNCHANGED <<storage, now, disabledSince, enableFree, formatterVars, copyVars, conflictVars, geofenceVars, pushVars>>

\* await hashPin(...) resolves and the function runs on to its next await
HashPinResolves(c) ==
  /\ c.pc = "hashPin"
  /\ CASE c.op = "enableAppLock" ->
            resume(c, [c EXCEPT !.pinHash = hashPin(c.pin), !.pc = "getSetting"])
       [] c.op \in {"resetPinWithSecurityQuestions", "changePin"} ->
            LET d == [c EXCEPT !.pinHash = hashPin(c.newPin)]
            IN resume(c, [d EXCEPT !.toSave = recordToSave(d, c.settings),
                                   !.pc = "setSetting"])
  /\ UNCHANGED <<storage, started, now, disabledSince, enableFree, formatterVars, copyVars, conflictVars, geofenceVars, pushVars>>

\* await getAppLockSettings() resolves with what is stored now and the
\* function runs on to its next await, or returns (changePin without a
\* stored hash: return false; shouldAppBeLocked: its result)
GetSettingResolves(c) ==
  /\ c.pc = "getSetting"
  /\ LET settings == getAppLockSettings
     IN CASE c.op \in {"enableAppLock", "setBiometricEnabled", "setLockTiming",
                       "updateLastUnlockTime"} ->
               resume(c, [c EXCEPT !.settings = settings,
                                   !.toSave = recordToSave(c, settings),
                                   !.pc = "setSetting"])
          [] c.op = "resetPinWithSecurityQuestions" ->
               resume(c, [c EXCEPT !.settings = settings, !.pc = "hashPin"])
          [] c.op = "changePin" ->
               IF settings.pinHash \in {null, ""}
               THEN return(c, FALSE)
               ELSE resume(c, [c EXCEPT !.settings = settings, !.pc = "verifyPin"])
          [] c.op = "shouldAppBeLocked" ->
               return(c, shouldAppBeLocked(settings, now))
  /\ UNCHANGED <<storage, started, now, disabledSince, enableFree, formatterVars, copyVars, conflictVars, geofenceVars, pushVars>>

\* changePin: await verifyPin(oldPin, settings.pinHash) resolves; a wrong
\* old PIN returns false
VerifyPinResolves(c) ==
  /\ c.pc = "verifyPin"
  /\ IF verifyPin(c.pin, c.settings.pinHash)
     THEN resume(c, [c EXCEPT !.pc = "hashPin"])
     ELSE return(c, FALSE)
  /\ UNCHANGED <<storage, started, now, disabledSince, enableFree, formatterVars, copyVars, conflictVars, geofenceVars, pushVars>>

\* saveAppLockSettings: await setSetting('appLockSettings', settings)
\* resolves, the record is stored
SetSettingResolves(c) ==
  /\ c.pc = "setSetting"
  /\ setSetting("appLockSettings", c.toSave)
  /\ resume(c, [c EXCEPT !.pc = "dispatchEvent"])
  /\ UNCHANGED <<started, now, disabledSince, enableFree, formatterVars, copyVars, conflictVars, geofenceVars, pushVars>>

\* saveAppLockSettings dispatches 'appLockUpdated' (no payload, no listener
\* in this module) and the call completes: changePin returns true, the
\* other functions return nothing
SaveAppLockSettingsReturns(c) ==
  /\ c.pc = "dispatchEvent"
  /\ return(c, IF c.op = "changePin" THEN TRUE ELSE "undefined")
  /\ disabledSince' = (disabledSince \/ c.id \in enableFree)
  /\ enableFree' = enableFree \ {c.id}
  /\ UNCHANGED <<storage, started, now, formatterVars, copyVars, conflictVars, geofenceVars, pushVars>>

\* time passes
Tick ==
  /\ now < MaxNow
  /\ now' = now + 1
  /\ UNCHANGED <<storage, inflight, started, returned, disabledSince, enableFree, solo, formatterVars, copyVars, conflictVars, geofenceVars, pushVars>>

LockNext ==
  \/ \E pin \in Pins, securityQuestions \in SecurityQuestionLists :
       EnableAppLock(pin, securityQuestions)
  \/ DisableAppLock
  \/ \E enabled \in BOOLEAN : SetBiometricEnabled(enabled)
  \/ \E timing \in LockTimings : SetLockTiming(timing)
  \/ UpdateLastUnlockTime
  \/ \E newPin \in Pins : ResetPinWithSecurityQuestions(newPin)
  \/ \E oldPin \in Pins, newPin \in Pins : ChangePin(oldPin, newPin)
  \/ \E c \in inflight : HashPinResolves(c)
  \/ \E c \in inflight : GetSettingResolves(c)
  \/ \E c \in inflight : VerifyPinResolves(c)
  \/ \E c \in inflight : SetSettingResolves(c)
  \/ \E c \in inflight : SaveAppLockSettingsReturns(c)
  \/ Tick

SpecLock == LockInit /\ [][LockNext]_vars

-----------------------------------------------------------------------------
(* shouldAppBeLocked against the clock *)

\* values of Date.now(): the time of installation and the next millisecond,
\* and the 30 s delay and the two milliseconds after it
Instants ==
  {1, 2, timingMs["30seconds"], timingMs["30seconds"] + 1, timingMs["30seconds"] + 2}

\* records the mutators leave in the store at time 1: the defaults and an
\* enabled lock, each with any lock timing, and a PIN reset without a lock
StoredSettings ==
  UNION {{[DEFAULT_SETTINGS EXCEPT !.lockTiming = timing],
          [DEFAULT_SETTINGS EXCEPT !.lockTiming = timing,
                                   !.pinHash = hashPin("1234"),
                                   !.lastUnlockTime = 1],
          [DEFAULT_SETTINGS EXCEPT !.lockTiming = timing,
                                   !.isEnabled = TRUE,
                                   !.pinHash = hashPin("1234"),
                                   !.securityQuestions = <<[question |-> "pet", answer |-> "rex"]>>,
                                   !.lastUnlockTime = 1]} : timing \in LockTiming}

LockedInit ==
  /\ text = <<>>
  /\ calls = <<>>
  /\ cur = <<>>
  /\ NoCopy
  /\ storage \in {<<>>} \cup {("appLockSettings" :> settings) : settings \in StoredSettings}
  /\ inflight = {}
  /\ started = 0
  /\ now = 1
  /\ returned = [id |-> 0, op |-> "none", value |-> "undefined"]
  /\ disabledSince = FALSE
  /\ enableFree = {}
  /\ solo = [id |-> 0, before |-> <<>>, since |-> 0]
  /\ NoConflicts
  /\ NoGeofence
  /\ NoPush

\* time passes up to a later instant
Elapse(instant) ==
  /\ instant > now
  /\ now' = instant
  /\ UNCHANGED <<storage, inflight, started, returned, disabledSince, enableFree, solo, formatterVars, copyVars, conflictVars, geofenceVars, pushVars>>

LockedNext ==
  \/ UpdateLastUnlockTime
  \/ ShouldAppBeLocked
  \/ \E c \in inflight : GetSettingResolves(c)
  \/ \E c \in inflight : SetSettingResolves(c)
  \/ \E c \in inflight : SaveAppLockSettingsReturns(c)
  \/ \E instant \in Instants : Elapse(instant)

SpecLocked == LockedInit /\ [][LockedNext]_vars

-----------------------------------------------------------------------------
(* Sync conflicts (src/utils/syncConflicts.ts) *)

MaxBatch == 2
MaxDepth == 2
MaxEntries == 3

ConflictIds == {"a", "b"}

\* a SyncConflict: its id, and detectedAt standing for the rest of its
\* fields; two conflicts detected for item a, none for item b
Conflicts == {[id |-> "a", detectedAt |-> 1], [id |-> "a", detectedAt |-> 2]}

ConflictBatches == UNION {[1..n -> Conflicts] : n \in 0..MaxBatch}

Listeners == {"l1", "l2"}

\* the slot of a deleted entry of the listener Set
deleted == ""

\* export const getPendingConflicts = () => [...pendingConflicts]
getPendingConflicts == pendingConflicts

\* code outside the module runs: no notification is under way, or a listener
\* of the innermost notification has been called and has not returned
CallerRuns == IF stack = <<>> THEN TRUE ELSE Head(stack).pos > 0

\* notifyConflictListeners up to the first callback: the snapshot is taken
\* and forEach starts before the first entry
notifyConflictListeners ==
  /\ Len(stack) < MaxDepth
  /\ stack' = <<[snapshot |-> pendingConflicts', pos |-> 0]>> \o stack

AddConflict(conflict) ==
  /\ CallerRuns
  /\ pendingConflicts' =
       Append(SelectSeq(pendingConflicts, LAMBDA c : c.id # conflict.id), conflict)
  /\ notifyConflictListeners
  /\ UNCHANGED <<conflictListeners, received, formatterVars, copyVars, lockVars, geofenceVars, pushVars>>

AddConflicts(conflicts) ==
  /\ CallerRuns
  /\ LET ids == {conflicts[i].id : i \in DOMAIN conflicts}
     IN pendingConflicts' =
          SelectSeq(pendingConflicts, LAMBDA c : c.id \notin ids) \o conflicts
  /\ notifyConflictListeners
  /\ UNCHANGED <<conflictListeners, received, formatterVars, copyVars, lockVars, geofenceVars, pushVars>>

ResolveConflict(conflictId) ==
  /\ CallerRuns
  /\ pendingConflicts' = SelectSeq(pendingConflicts, LAMBDA c : c.id # conflictId)
  /\ notifyConflictListeners
  /\ UNCHANGED <<conflictListeners, received, formatterVars, copyVars, lockVars, geofenceVars, pushVars>>

ClearAllConflicts ==
  /\ CallerRuns
  /\ pendingConflicts' = <<>>
  /\ notifyConflictListeners
  /\ UNCHANGED <<conflictListeners, received, formatterVars, copyVars, lockVars, geofenceVars, pushVars>>

\* conflictListeners.add(listener): a listener already in the Set is not
\* added again
AddConflictListener(listener) ==
  /\ CallerRuns
  /\ \A i \in DOMAIN conflictListeners : conflictListeners[i] # listener
  /\ Len(conflictListeners) < MaxEntries
  /\ conflictListeners' = Append(conflictListeners, listener)
  /\ UNCHANGED <<pendingConflicts, stack, received, formatterVars, copyVars, lockVars, geofenceVars, pushVars>>

\* the function addConflictListener returned is called:
\* conflictListeners.delete(listener)
Unsubscribe(listener) ==
  /\ CallerRuns
  /\ \E i \in DOMAIN conflictListeners : conflictListeners[i] = listener
  /\ conflictListeners' =
       IF stack = <<>>
       THEN SelectSeq(conflictListeners, LAMBDA fn : fn # listener)
       ELSE [i \in DOMAIN conflictListeners |->
               IF conflictListeners[i] = listener THEN deleted ELSE conflictListeners[i]]
  /\ received' = [l \in DOMAIN received \ {listener} |-> received[l]]
  /\ UNCHANGED <<pendingConflicts, stack, formatterVars, copyVars, lockVars, geofenceVars, pushVars>>

\* the entries forEach of the innermost notification has still to visit
entriesAhead ==
  {i \in DOMAIN conflictListeners : i > Head(stack).pos /\ conflictListeners[i] # deleted}

\* conflictListeners.forEach(fn => fn(snapshot)): the next entry is called
\* with the snapshot of this notification (the callback of the entry before
\* has returned)
CallListener ==
  /\ stack # <<>>
  /\ entriesAhead # {}
  /\ LET i == CHOOSE i \in entriesAhead : \A j \in entriesAhead : i <= j
     IN /\ received' = (conflictListeners[i] :> Head(stack).snapshot) @@ received
        /\ stack' = <<[Head(stack) EXCEPT !.pos = i]>> \o Tail(stack)
  /\ UNCHANGED <<pendingConflicts, conflictListeners, formatterVars, copyVars, lockVars, geofenceVars, pushVars>>

\* forEach is past the last entry: notifyConflictListeners returns, and so
\* does the operation that called it
NotifyReturns ==
  /\ stack # <<>>
  /\ entriesAhead = {}
  /\ stack' = Tail(stack)
  /\ conflictListeners' =
       IF Tail(stack) = <<>>
       THEN SelectSeq(conflictListeners, LAMBDA fn : fn # deleted)
       ELSE conflictListeners
  /\ UNCHANGED <<pendingConflicts, received, formatterVars, copyVars, lockVars, geofenceVars, pushVars>>

ConflictInit ==
  /\ text = <<>>
  /\ calls = <<>>
  /\ cur = <<>>
  /\ NoCopy
  /\ NoAppLock
  /\ NoConflicts
  /\ NoGeofence
  /\ NoPush

ConflictNext ==
  \/ \E conflict \in Conflicts : AddConflict(conflict)
  \/ \E conflicts \in ConflictBatches : AddConflicts(conflicts)
  \/ \E conflictId \in ConflictIds : ResolveConflict(conflictId)
  \/ ClearAllConflicts
  \/ \E listener \in Listeners : AddConflictListener(listener)
  \/ \E listener \in Listeners : Unsubscribe(listener)
  \/ CallListener
  \/ NotifyReturns

SpecConflicts == ConflictInit /\ [][ConflictNext]_vars

-----------------------------------------------------------------------------
(* Geofences (src/utils/geofencing.ts) *)

MaxChecks == 3

\* the reminders of the tasks share one centre and radius (in metres)
locationReminder(enabled, triggerOnEnter, triggerOnExit) ==
  [enabled |-> enabled, latitude |-> 48, longitude |-> 11, radius |-> 100,
   triggerOnEnter |-> triggerOnEnter, triggerOnExit |-> triggerOnExit]

\* a TodoItem: its id, completed, and the optional locationReminder (absent:
\* the empty sequence)
TodoItem(id) ==
  [id |-> id,
   completed |-> (id = "done"),
   locationReminder |->
     CASE id = "both" -> <<locationReminder(TRUE, TRUE, TRUE)>>
       [] id = "enter" -> <<locationReminder(TRUE, TRUE, FALSE)>>
       [] id = "exit" -> <<locationReminder(TRUE, FALSE, TRUE)>>
       [] id = "silent" -> <<locationReminder(TRUE, FALSE, FALSE)>>
       [] id = "done" -> <<locationReminder(TRUE, TRUE, TRUE)>>
       [] id = "off" -> <<locationReminder(FALSE, TRUE, TRUE)>>
       [] id = "bare" -> <<>>]

TaskIds == {"both", "enter", "exit", "silent", "done", "off", "bare"}

\* the tasks argument of checkGeofences
TaskLists ==
  {<<TodoItem(id)>> : id \in TaskIds}
    \cup {<<TodoItem("off"), TodoItem("both")>>, <<TodoItem("both"), TodoItem("exit")>>}

\* positions of the user: (48.0005, 11) and (48.002, 11)
Places == {"door", "away"}

\* calculateDistance from the position to the centre (48, 11) of the
\* reminders, in whole metres: 55.597... and 222.389...
calculateDistance(place, reminder) ==
  CASE place = "door" -> 55
    [] place = "away" -> 222

isInsideGeofence(place, reminder) ==
  calculateDistance(place, reminder) <= reminder.radius

\* tasks.filter(...): not completed, reminder enabled, latitude and longitude
\* truthy
tasksWithLocation(tasks) ==
  SelectSeq(tasks, LAMBDA task :
    /\ ~task.completed
    /\ task.locationReminder # <<>>
    /\ task.locationReminder[1].enabled
    /\ task.locationReminder[1].latitude # 0
    /\ task.locationReminder[1].longitude # 0)

\* mutant: a crossing triggers whatever the reminder enables
shouldTrigger_anyDirection(isInside, reminder) == TRUE

\* the branches around the two calls of triggerGeofenceNotification: entering
\* with triggerOnEnter, or leaving with triggerOnExit
shouldTrigger(isInside, reminder) ==
  \/ isInside /\ reminder.triggerOnEnter
  \/ ~isInside /\ reminder.triggerOnExit

statusOf(isInside) == IF isInside THEN "inside" ELSE "outside"

\* geofenceStates.set(task.id, ...)
setState(states, taskId, state) == (taskId :> state) @@ states

\* the for loop of checkGeofences from the task at the head of tasks up to
\* the first await triggerGeofenceNotification(...) or the end of the loop:
\* the Map, the log of what was evaluated, and the iteration suspended if any
RECURSIVE forLoop(_, _, _, _, _)
forLoop(id, place, tasks, states, log) ==
  IF tasks = <<>>
  THEN [states |-> states, log |-> log, suspended |-> <<>>]
  ELSE LET task == Head(tasks)
           reminder == task.locationReminder[1]
           isInside == isInsideGeofence(place, reminder)
           hasState == task.id \in DOMAIN states
           evaluated ==
             Append(log, [kind |-> "eval", check |-> id, taskId |-> task.id,
                          inside |-> isInside,
                          recorded |-> IF hasState
                                       THEN statusOf(states[task.id].wasInside)
                                       ELSE "none"])
       IN IF ~hasState
          THEN forLoop(id, place, Tail(tasks),
                       setState(states, task.id,
                                [taskId |-> task.id, wasInside |-> isInside,
                                 lastCheckTime |-> now]),
                       evaluated)
          ELSE IF isInside # states[task.id].wasInside
          THEN IF shouldTrigger(isInside, reminder)
               THEN [states |-> states, log |-> evaluated,
                     suspended |-> <<[id |-> id, place |-> place, task |-> task,
                                      rest |-> Tail(tasks), state |-> states[task.id],
                                      isInside |-> isInside, pc |-> "haptics"]>>]
               ELSE forLoop(id, place, Tail(tasks),
                            setState(states, task.id,
                                     [states[task.id] EXCEPT !.wasInside = isInside,
                                                             !.lastCheckTime = now]),
                            evaluated)
          ELSE forLoop(id, place, Tail(tasks), states, evaluated)

checksStarted == Len(SelectSeq(observed, LAMBDA o : o.kind = "call"))

\* a position callback calls checkGeofences(tasks, lat, lon): it runs to its
\* first await or to its end
CheckGeofences(tasks, place) ==
  /\ checksStarted < MaxChecks
  /\ LET id == checksStarted + 1
         run == forLoop(id, place, tasksWithLocation(tasks), geofenceStates,
                        Append(observed, [kind |-> "call", check |-> id, taskId |-> "",
                                          inside |-> FALSE, recorded |-> ""]))
     IN /\ geofenceStates' = run.states
        /\ observed' = run.log
        /\ checks' = checks \cup {run.suspended[i] : i \in DOMAIN run.suspended}
  /\ UNCHANGED <<events, formatterVars, copyVars, lockVars, conflictVars, pushVars>>

\* triggerGeofenceNotification: await Haptics.impact settles (a rejection is
\* swallowed by catch {}), the geofenceTriggered event is dispatched
HapticsSettles(c) ==
  /\ c.pc = "haptics"
  /\ events' = Append(events, [taskId |-> c.task.id,
                               action |-> IF c.isInside THEN "Arrived at" ELSE "Left"])
  /\ observed' = Append(observed, [kind |-> "event", check |-> c.id, taskId |-> c.task.id,
                                   inside |-> c.isInside, recorded |-> ""])
  /\ checks' = (checks \ {c}) \cup {[c EXCEPT !.pc = "dispatched"]}
  /\ UNCHANGED <<geofenceStates, formatterVars, copyVars, lockVars, conflictVars, pushVars>>

\* await triggerGeofenceNotification(...) resolves: the status is stored
\* from the state read before the await, and the loop goes on
TriggerReturns(c) ==
  /\ c.pc = "dispatched"
  /\ LET run == forLoop(c.id, c.place, c.rest,
                        setState(geofenceStates, c.task.id,
                                 [c.state EXCEPT !.wasInside = c.isInside,
                                                 !.lastCheckTime = now]),
                        observed)
     IN /\ geofenceStates' = run.states
        /\ observed' = run.log
        /\ checks' = (checks \ {c}) \cup {run.suspended[i] : i \in DOMAIN run.suspended}
  /\ UNCHANGED <<events, formatterVars, copyVars, lockVars, conflictVars, pushVars>>

\* clearGeofenceState(taskId)
ClearGeofenceState(taskId) ==
  /\ taskId \in DOMAIN geofenceStates
  /\ geofenceStates' = [id \in DOMAIN geofenceStates \ {taskId} |-> geofenceStates[id]]
  /\ UNCHANGED <<checks, events, observed, formatterVars, copyVars, lockVars, conflictVars, pushVars>>

\* clearAllGeofenceStates(), and the stop function of startGeofenceWatching
ClearAllGeofenceStates ==
  /\ geofenceStates # <<>>
  /\ geofenceStates' = <<>>
  /\ UNCHANGED <<checks, events, observed, formatterVars, copyVars, lockVars, conflictVars, pushVars>>

GeofenceInit ==
  /\ text = <<>>
  /\ calls = <<>>
  /\ cur = <<>>
  /\ NoCopy
  /\ NoAppLock
  /\ NoConflicts
  /\ NoGeofence
  /\ NoPush

GeofenceNext ==
  \/ \E tasks \in TaskLists, place \in Places : CheckGeofences(tasks, place)
  \/ \E c \in checks : HapticsSettles(c)
  \/ \E c \in checks : TriggerReturns(c)
  \/ \E taskId \in TaskIds : ClearGeofenceState(taskId)
  \/ ClearAllGeofenceStates

SpecGeofence == GeofenceInit /\ [][GeofenceNext]_vars

-----------------------------------------------------------------------------
(* Push notifications (src/utils/notifications.ts), on a native platform *)

MaxInits == 3

\* the awaits of initialize in the order of the code; register is awaited
\* only when the permission is granted
Awaits ==
  <<"requestPermissions", "register", "registration", "registrationError",
    "pushNotificationReceived", "pushNotificationActionPerformed">>

\* the events initialize adds a listener for
PushEvents ==
  {"registration", "registrationError", "pushNotificationReceived",
   "pushNotificationActionPerformed"}

PermissionStates == {"granted", "denied"}

indexOf(pc) == CHOOSE i \in DOMAIN Awaits : Awaits[i] = pc

\* notificationManager.initialize() is called: it returns at once when
\* initialized, and is suspended at await requestPermissions() otherwise
Initialize ==
  /\ initStarted < MaxInits
  /\ initStarted' = initStarted + 1
  /\ initCalls' = IF initialized
                  THEN initCalls
                  ELSE initCalls \cup {[id |-> initStarted + 1, pc |-> "requestPermissions"]}
  /\ UNCHANGED <<initialized, permissionGranted, pushListeners,
                 formatterVars, copyVars, lockVars, conflictVars, geofenceVars>>

\* await PushNotifications.requestPermissions() resolves with receive
RequestPermissionsResolves(c, receive) ==
  /\ c.pc = "requestPermissions"
  /\ permissionGranted' = (receive = "granted")
  /\ initCalls' = (initCalls \ {c})
                    \cup {[c EXCEPT !.pc = IF receive = "granted"
                                           THEN "register" ELSE "registration"]}
  /\ UNCHANGED <<initialized, pushListeners, initStarted,
                 formatterVars, copyVars, lockVars, conflictVars, geofenceVars>>

\* await PushNotifications.register() resolves
RegisterResolves(c) ==
  /\ c.pc = "register"
  /\ initCalls' = (initCalls \ {c}) \cup {[c EXCEPT !.pc = "registration"]}
  /\ UNCHANGED <<initialized, permissionGranted, pushListeners, initStarted,
                 formatterVars, copyVars, lockVars, conflictVars, geofenceVars>>

\* await PushNotifications.addListener(c.pc, ...) resolves: the listener is
\* added; after the last one initialized is set and initialize returns
AddListenerResolves(c) ==
  /\ c.pc \in PushEvents
  /\ pushListeners' = Append(pushListeners, c.pc)
  /\ IF indexOf(c.pc) < Len(Awaits)
     THEN /\ initCalls' = (initCalls \ {c}) \cup {[c EXCEPT !.pc = Awaits[indexOf(c.pc) + 1]]}
          /\ UNCHANGED initialized
     ELSE /\ initCalls' = initCalls \ {c}
          /\ initialized' = TRUE
  /\ UNCHANGED <<permissionGranted, initStarted,
                 formatterVars, copyVars, lockVars, conflictVars, geofenceVars>>

\* the awaited call rejects: catch (error) logs it and initialize returns
\* with initialized left as it was
AwaitRejects(c) ==
  /\ initCalls' = initCalls \ {c}
  /\ UNCHANGED <<initialized, permissionGranted, pushListeners, initStarted,
                 formatterVars, copyVars, lockVars, conflictVars, geofenceVars>>

PushInit ==
  /\ text = <<>>
  /\ calls = <<>>
  /\ cur = <<>>
  /\ NoCopy
  /\ NoAppLock
  /\ NoConflicts
  /\ NoGeofence
  /\ NoPush

PushNext ==
  \/ Initialize
  \/ \E c \in initCalls, receive \in PermissionStates : RequestPermissionsResolves(c, receive)
  \/ \E c \in initCalls : RegisterResolves(c)
  \/ \E c \in initCalls : AddListenerResolves(c)
  \/ \E c \in initCalls : AwaitRejects(c)

SpecPush == PushInit /\ [][PushNext]_vars

-----------------------------------------------------------------------------
(* Vocabulary of the properties *)

\* printable ASCII: U+0020 .. U+007E
IsPrintableAscii(s) == \A i \in 1..Len(s) : s[i] >= 32 /\ s[i] <= 126

\* the code points of a string that are not combining marks, in order
BaseChars(s) == SelectSeq(ArrayFrom(s), LAMBDA ch : ~isCombining(ch))

\* MarkRuns(s)[1] holds the marks in front of the first base character and
\* MarkRuns(s)[k + 1] the marks that follow the k-th base character
RECURSIVE MarkRunsFrom(_, _)
MarkRunsFrom(chars, runs) ==
  IF chars = <<>> THEN runs
  ELSE IF isCombining(Head(chars))
  THEN MarkRunsFrom(Tail(chars),
         [runs EXCEPT ![Len(runs)] = @ \o Head(chars)])
  ELSE MarkRunsFrom(Tail(chars), Append(runs, <<>>))

MarkRuns(s) == MarkRunsFrom(ArrayFrom(s), <<(<<>>)>>)

IncludesBold(emphasis) == emphasis \in {"bold", "boldItalic"}
IncludesItalic(emphasis) == emphasis \in {"italic", "boldItalic"}

StyledOnce(style) ==
  calls = <<[fn |-> "toUnicodeStyle", arg |-> style]>>

Converted(targetVariant) ==
  calls = <<[fn |-> "convertPreservingEmphasis", arg |-> targetVariant]>>

StyledThenRemoved(style, preserve) ==
  calls = <<[fn |-> "toUnicodeStyle", arg |-> style],
            [fn |-> "removeUnicodeFormatting", arg |-> preserve]>>

-----------------------------------------------------------------------------
\* C1: for printable ASCII text and each of the ten substitution styles S,
\* removeUnicodeFormatting(toUnicodeStyle(text, S)) is text again.
C1_RoundTrip ==
  \A style \in CharMapStyles :
    (StyledThenRemoved(style, "false") /\ IsPrintableAscii(text)) => cur = text

\* C1 witness: "Hh" styled italic (h is the BMP exception) and stripped again
C1_Witness ==
  /\ StyledThenRemoved("italic", "false")
  /\ text = <<72, 104>>
  /\ cur = text

\* C2 (as claimed): convertPreservingEmphasis into a known variant keeps every
\* combining mark, each run of marks after the base character of the same
\* index, wherever the marks occur in the text.
C2_MarksPreserved ==
  \A v \in DOMAIN variantEmphasisMap :
    Converted(v) => MarkRuns(cur) = MarkRuns(text)

\* C3: after convertPreservingEmphasis(text, 'sansNormal') every output base
\* character has the emphasis and the plain character detectCharEmphasis
\* finds for the input base character of the same index.
C3_SansKeepsEmphasis ==
  Converted("sansNormal") =>
    /\ Len(BaseChars(cur)) = Len(BaseChars(text))
    /\ \A k \in 1..Len(BaseChars(text)) :
         detectCharEmphasis(BaseChars(cur)[k]) = detectCharEmphasis(BaseChars(text)[k])

\* C3 witness: bold h then plain H became boldSans h then sansNormal H
C3_Witness ==
  /\ Converted("sansNormal")
  /\ text = charMapsLower["bold"][104] \o <<72>>
  /\ cur = charMapsLower["boldSans"][104] \o charMapsUpper["sansNormal"][72]
  /\ detectCharEmphasis(BaseChars(cur)[1]).emphasis = "bold"
  /\ detectCharEmphasis(BaseChars(cur)[2]).emphasis = "none"

SerifSansVariants ==
  {"normal", "bold", "italic", "boldItalic",
   "sansNormal", "boldSans", "italicSans", "boldItalicSans"}

\* C4 (as claimed): converting into a serif or sans variant never flattens
\* emphasis: a base character detected as bold (italic) before is still
\* detected as bold (italic) afterwards, digits included.
C4_NeverFlattens ==
  \A v \in SerifSansVariants :
    Converted(v) =>
      \A k \in 1..Len(BaseChars(text)) :
        LET before == detectCharEmphasis(BaseChars(text)[k]).emphasis
            after == IF k <= Len(BaseChars(cur))
                     THEN detectCharEmphasis(BaseChars(cur)[k]).emphasis
                     ELSE "none"
        IN /\ IncludesBold(before) => IncludesBold(after)
           /\ IncludesItalic(before) => IncludesItalic(after)

\* C5: for a known variant V, the k-th base character of the output is the
\* plain character p of the k-th input base character when
\* variantEmphasisMap[V][e] is 'plain' and toUnicodeStyle(p, that style)
\* otherwise, and there are as many base characters as in the input.
C5_PerCharacter ==
  \A v \in DOMAIN variantEmphasisMap :
    Converted(v) =>
      /\ Len(BaseChars(cur)) = Len(BaseChars(text))
      /\ \A k \in 1..Len(BaseChars(text)) :
           LET d == detectCharEmphasis(BaseChars(text)[k])
               target == variantEmphasisMap[v][d.emphasis]
           IN BaseChars(cur)[k] =
                IF target = "plain" THEN d.plain ELSE toUnicodeStyle(d.plain, target)

\* C5 witness: italic h then plain 7 converted into bold: h becomes
\* boldItalic h (italic under bold) and 7 becomes bold 7 (none under bold)
C5_Witness ==
  /\ Converted("bold")
  /\ text = charMapsLower["italic"][104] \o <<55>>
  /\ cur = charMapsLower["boldItalic"][104] \o charMapsDigits["bold"][55]

\* C6 (as claimed): a targetVariant that is no key of the variant-emphasis
\* table leaves the text unchanged.
C6_UnknownVariantNoOp ==
  \A v \in TargetVariants \ DOMAIN variantEmphasisMap :
    Converted(v) => cur = text

\* C7 (as claimed): boldUnderline (boldStrikethrough) gives, for each
\* character of the text in order, its bold form followed by one U+0332
\* (U+0336); one letter gives two code points.
C7_BoldThenMarker ==
  /\ StyledOnce("boldUnderline") =>
       /\ cur = Join([k \in 1..Len(ArrayFrom(text)) |->
                   toUnicodeStyle(ArrayFrom(text)[k], "bold") \o <<COMBINING_UNDERLINE>>])
       /\ Len(ArrayFrom(cur)) = 2 * Len(ArrayFrom(text))
  /\ StyledOnce("boldStrikethrough") =>
       /\ cur = Join([k \in 1..Len(ArrayFrom(text)) |->
                   toUnicodeStyle(ArrayFrom(text)[k], "bold") \o <<COMBINING_STRIKETHROUGH>>])
       /\ Len(ArrayFrom(cur)) = 2 * Len(ArrayFrom(text))

\* C8 (as claimed): underline (strikethrough) applied to text that holds
\* styled characters puts one marker after each character, styled or not:
\* twice as many code points, every input code point intact before its marker.
C8_MarkerAfterEachCodePoint ==
  /\ StyledOnce("underline") =>
       /\ cur = Join([k \in 1..Len(ArrayFrom(text)) |->
                   ArrayFrom(text)[k] \o <<COMBINING_UNDERLINE>>])
       /\ Len(ArrayFrom(cur)) = 2 * Len(ArrayFrom(text))
  /\ StyledOnce("strikethrough") =>
       /\ cur = Join([k \in 1..Len(ArrayFrom(text)) |->
                   ArrayFrom(text)[k] \o <<COMBINING_STRIKETHROUGH>>])
       /\ Len(ArrayFrom(cur)) = 2 * Len(ArrayFrom(text))

\* C9: for plain ASCII text of n characters, underline gives 2n code points,
\* the i-th input character followed at once by U+0332; strikethrough the
\* same with U+0336.
C9_PlainUnderline ==
  IsPrintableAscii(text) =>
    /\ StyledOnce("underline") =>
         /\ Len(ArrayFrom(cur)) = 2 * Len(text)
         /\ \A i \in 1..Len(text) :
              cur[2 * i - 1] = text[i] /\ cur[2 * i] = COMBINING_UNDERLINE
    /\ StyledOnce("strikethrough") =>
         /\ Len(ArrayFrom(cur)) = 2 * Len(text)
         /\ \A i \in 1..Len(text) :
              cur[2 * i - 1] = text[i] /\ cur[2 * i] = COMBINING_STRIKETHROUGH

\* C9 witness: "Hh" underlined is H, U+0332, h, U+0332
C9_Witness ==
  /\ StyledOnce("underline")
  /\ text = <<72, 104>>
  /\ cur = <<72, \H0332, 104, \H0332>>

\* C10 (as claimed): removeUnicodeFormatting(text, true) keeps every mark in
\* place and replaces every styled letter or digit by its ASCII source, also
\* for the output of toUnicodeStyle with boldUnderline or boldStrikethrough.
C10_PreserveCombining ==
  /\ calls = <<[fn |-> "removeUnicodeFormatting", arg |-> "true"]>> =>
       cur = Join([k \in 1..Len(ArrayFrom(text)) |->
                LET d == detectCharEmphasis(ArrayFrom(text)[k]) IN d.plain])
  /\ (StyledThenRemoved("boldUnderline", "true") /\ IsPrintableAscii(text)) =>
       cur = Join([i \in 1..Len(text) |-> <<text[i], COMBINING_UNDERLINE>>])
  /\ (StyledThenRemoved("boldStrikethrough", "true") /\ IsPrintableAscii(text)) =>
       cur = Join([i \in 1..Len(text) |-> <<text[i], COMBINING_STRIKETHROUGH>>])

\* C11: for plain ASCII text and each of the four combining-mark styles,
\* removeUnicodeFormatting(toUnicodeStyle(text, style)) with
\* preserveCombining = false is text again and holds no U+0332 or U+0336.
C11_MarkStylesRoundTrip ==
  \A style \in {"underline", "strikethrough", "boldUnderline", "boldStrikethrough"} :
    (StyledThenRemoved(style, "false") /\ IsPrintableAscii(text)) =>
      /\ cur = text
      /\ \A i \in 1..Len(cur) :
           cur[i] # COMBINING_UNDERLINE /\ cur[i] # COMBINING_STRIKETHROUGH

\* C11 witness: "H7" under boldStrikethrough (markers between the surrogate
\* halves) and stripped again
C11_Witness ==
  /\ StyledThenRemoved("boldStrikethrough", "false")
  /\ text = <<72, 55>>
  /\ cur = text

\* the styled strings the tables hold
StyledCodePoints == {charMapsEntries[i].unicode : i \in DOMAIN charMapsEntries}

\* the tables taken together: no two entries share a styled code point, no
\* styled code point is an ASCII letter or digit, and reverseMap gives for
\* every styled code point the source of every entry that holds it
TablesInjective ==
  /\ \A i, j \in DOMAIN charMapsEntries :
       charMapsEntries[i].unicode = charMapsEntries[j].unicode => i = j
  /\ \A i \in DOMAIN charMapsEntries :
       /\ charMapsEntries[i].unicode \notin
            {<<c>> : c \in (65..90) \cup (97..122) \cup (48..57)}
       /\ reverseMap[charMapsEntries[i].unicode] = charMapsEntries[i].plain

\* C12: over all ten tables no two distinct (style, ASCII character) pairs map
\* to the same styled code point and no styled code point is an ASCII letter
\* or digit, so the merged reverse table never overwrites an entry with
\* another source character.
C12_TablesInjective ==
  /\ TablesInjective
  /\ Cardinality(DOMAIN reverseMap) = Len(charMapsEntries)
  /\ \A p \in {"true", "false"} :
       calls = <<[fn |-> "removeUnicodeFormatting", arg |-> p]>> =>
         \A k \in 1..Len(ArrayFrom(text)) :
           Cardinality({i \in DOMAIN charMapsEntries :
                          charMapsEntries[i].unicode = ArrayFrom(text)[k]}) <= 1

\* C12 witness: bold h and italicSans h both stripped to h through reverseMap
C12_Witness ==
  /\ calls = <<[fn |-> "removeUnicodeFormatting", arg |-> "false"]>>
  /\ text = charMapsLower["bold"][104] \o charMapsLower["italicSans"][104]
  /\ cur = <<104, 104>>

ClaimedEmphasis(style) ==
  CASE style \in {"bold", "boldSans"} -> "bold"
    [] style \in {"italic", "italicSans"} -> "italic"
    [] style \in {"boldItalic", "boldItalicSans"} -> "boldItalic"
    [] style \in {"sansNormal", "script", "monospace", "doublestruck"} -> "none"

\* detectCharEmphasis on every entry of every table
DetectsEveryEntry ==
  \A i \in DOMAIN charMapsEntries :
    detectCharEmphasis(charMapsEntries[i].unicode) =
      [plain |-> charMapsEntries[i].plain,
       emphasis |-> ClaimedEmphasis(charMapsEntries[i].style)]

HasEntry(style, ch) ==
  /\ Len(ch) = 1
  /\ \/ ch[1] \in (65..90) \cup (97..122)
     \/ ch[1] \in 48..57 /\ style \in {"bold", "boldSans", "sansNormal",
                                       "monospace", "doublestruck"}

\* C14: under a substitution style toUnicodeStyle leaves every character
\* without entry in that style's tables unchanged at its position
\* (punctuation, marks, digits under a style without digit table, characters
\* styled before); only ASCII letters and digits with a table are replaced.
C14_UnmappedUnchanged ==
  \A style \in CharMapStyles :
    StyledOnce(style) =>
      /\ Len(ArrayFrom(cur)) = Len(ArrayFrom(text))
      /\ \A k \in 1..Len(ArrayFrom(text)) :
           IF HasEntry(style, ArrayFrom(text)[k])
           THEN ArrayFrom(cur)[k] # ArrayFrom(text)[k]
           ELSE ArrayFrom(cur)[k] = ArrayFrom(text)[k]

\* C14 witness: bold h then 7 under italic: both unchanged (h is styled
\* already, italic has no digits)
C14_Witness ==
  /\ StyledOnce("italic")
  /\ text = charMapsLower["bold"][104] \o <<55>>
  /\ cur = text

\* C15 (as claimed): for every text whatsoever and every substitution style,
\* removeUnicodeFormatting(toUnicodeStyle(text, S)) is the original text.
C15_RoundTripAnyText ==
  \A style \in CharMapStyles :
    StyledThenRemoved(style, "false") => cur = text

\* no code point of s is an entry of a style table or a combining mark
NoStyledNoMarks(s) ==
  \A k \in 1..Len(ArrayFrom(s)) :
    /\ ~isCombining(ArrayFrom(s)[k])
    /\ ArrayFrom(s)[k] \notin StyledCodePoints

\* C15 (amended): the round trip holds for every text that holds no styled
\* code point of any table and no U+0332 or U+0336, ASCII or not.
C15_RoundTripUnstyledText ==
  \A style \in CharMapStyles :
    (StyledThenRemoved(style, "false") /\ NoStyledNoMarks(text)) => cur = text

\* C15 witness: a lone high surrogate then h, styled monospace and stripped
C15_Witness ==
  /\ StyledThenRemoved("monospace", "false")
  /\ text = <<\HD835, 104>>
  /\ NoStyledNoMarks(text)
  /\ cur = text

\* String.prototype.codePointAt(0) of a one code point string
CodePointOf(ch) ==
  IF Len(ch) = 2
  THEN \H10000 + (ch[1] - \HD800) * \H400 + (ch[2] - \HDC00)
  ELSE ch[1]

\* the exceptions the claim lists: <<style, ASCII code unit, code point>>
ClaimedExceptions ==
  {<<"italic", 104, \H210E>>,
   <<"script", 66, \H212C>>, <<"script", 69, \H2130>>, <<"script", 70, \H2131>>,
   <<"script", 72, \H210B>>, <<"script", 73, \H2110>>, <<"script", 76, \H2112>>,
   <<"script", 77, \H2133>>, <<"script", 82, \H211B>>,
   <<"script", 101, \H212F>>, <<"script", 103, \H210A>>, <<"script", 111, \H2134>>,
   <<"doublestruck", 67, \H2102>>, <<"doublestruck", 72, \H210D>>,
   <<"doublestruck", 78, \H2115>>, <<"doublestruck", 80, \H2119>>,
   <<"doublestruck", 81, \H211A>>, <<"doublestruck", 82, \H211D>>,
   <<"doublestruck", 90, \H2124>>}

IsClaimedException(style, c) ==
  \E x \in ClaimedExceptions : x[1] = style /\ x[2] = c

\* the three alphabets as sets of ASCII code units
AlphabetRanges == {65..90, 97..122, 48..57}

\* every table is its block in alphabet order (equal steps between any two
\* entries that are no exception), the bold blocks start at U+1D400, U+1D41A
\* and U+1D7CE, and the exceptions are the listed ones
TablesAreBlocks ==
  /\ \A i \in DOMAIN charMapsEntries :
       LET e == charMapsEntries[i] IN
       /\ IsClaimedException(e.style, e.plain[1]) =>
            <<e.style, e.plain[1], CodePointOf(e.unicode)>> \in ClaimedExceptions
       /\ e.style = "bold" =>
            CodePointOf(e.unicode) =
              CASE e.plain[1] \in 65..90 -> \H1D400 + (e.plain[1] - 65)
                [] e.plain[1] \in 97..122 -> \H1D41A + (e.plain[1] - 97)
                [] e.plain[1] \in 48..57 -> \H1D7CE + (e.plain[1] - 48)
  /\ \A i, j \in DOMAIN charMapsEntries :
       LET e == charMapsEntries[i]
           f == charMapsEntries[j]
       IN (/\ e.style = f.style
           /\ \E r \in AlphabetRanges : e.plain[1] \in r /\ f.plain[1] \in r
           /\ ~IsClaimedException(e.style, e.plain[1])
           /\ ~IsClaimedException(f.style, f.plain[1]))
          => CodePointOf(f.unicode) - CodePointOf(e.unicode) = f.plain[1] - e.plain[1]

\* C16: every table maps the i-th letter or digit of its alphabet to base + i
\* of its block (bold: U+1D400, U+1D41A, U+1D7CE), except italic h, script
\* B E F H I L M R e g o and doublestruck C H N P Q R Z, which are the listed
\* BMP code points; toUnicodeStyle under bold returns these code points.
C16_TableValues ==
  /\ TablesAreBlocks
  /\ (StyledOnce("bold") /\ \A i \in 1..Len(text) : HasEntry("bold", <<text[i]>>)) =>
       cur = Join([i \in 1..Len(text) |->
               fromCodePoint(
                 CASE text[i] \in 65..90 -> \H1D400 + (text[i] - 65)
                   [] text[i] \in 97..122 -> \H1D41A + (text[i] - 97)
                   [] text[i] \in 48..57 -> \H1D7CE + (text[i] - 48))])
  /\ (StyledOnce("doublestruck") /\ text = <<72>>) => cur = <<\H210D>>
  /\ (StyledOnce("script") /\ text = <<72>>) => cur = <<\H210B>>
  /\ (StyledOnce("italic") /\ text = <<104>>) => cur = <<\H210E>>

\* C16 witness: "Hh" under bold is U+1D407, U+1D421
C16_Witness ==
  /\ StyledOnce("bold")
  /\ text = <<72, 104>>
  /\ cur = fromCodePoint(\H1D407) \o fromCodePoint(\H1D421)

-----------------------------------------------------------------------------
(* Vocabulary of the list properties *)

\* the input lines by the positions of the line feeds: line k lies between
\* the (k-1)-th and the k-th line feed
LineFeedsOf(s) == {i \in 1..Len(s) : s[i] = 10}

InputLine(s, k) ==
  LET before == {i \in LineFeedsOf(s) :
                   Cardinality({j \in LineFeedsOf(s) : j <= i}) = k - 1}
      after == {i \in LineFeedsOf(s) :
                  Cardinality({j \in LineFeedsOf(s) : j <= i}) = k}
      first == IF k = 1 THEN 1 ELSE (CHOOSE i \in before : TRUE) + 1
      last == IF after = {} THEN Len(s) ELSE (CHOOSE i \in after : TRUE) - 1
  IN SubSeq(s, first, last)

InputLines(s) == [k \in 1..(Cardinality(LineFeedsOf(s)) + 1) |-> InputLine(s, k)]

\* space, tab, line feed, carriage return and the like
IsBlankChar(u) == u \in {9, 10, 11, 12, 13, 32}

IsBlankLine(line) == \A i \in 1..Len(line) : IsBlankChar(line[i])

\* a non-blank line from its first to its last non-blank character
Trimmed(line) ==
  LET inked == {i \in 1..Len(line) : ~IsBlankChar(line[i])}
  IN SubSeq(line,
            CHOOSE i \in inked : \A j \in inked : i <= j,
            CHOOSE i \in inked : \A j \in inked : j <= i)

NonBlankInputLines(s) == SelectSeq(InputLines(s), LAMBDA line : ~IsBlankLine(line))

\* the value of a string of ASCII digits
RECURSIVE DecimalValue(_)
DecimalValue(digits) ==
  IF digits = <<>> THEN 0
  ELSE 10 * DecimalValue(SubSeq(digits, 1, Len(digits) - 1)) + (digits[Len(digits)] - 48)

MarkerOf(fn) ==
  CASE fn = "toBulletList" -> <<\H2022>>
    [] fn = "toCheckboxList" -> <<\H2610>>
    [] fn = "toAscendingList" -> <<\H2197>>
    [] fn = "toDescendingList" -> <<\H2198>>

\* C17: toBulletList, toCheckboxList, toAscendingList and toDescendingList
\* return one line per input line that is non-empty after trimming, in input
\* order, each the marker, a space and the trimmed line, joined by single
\* line feeds; blank lines give nothing: toBulletList("a\n\nb") = "* a\n* b"
\* with the bullet U+2022 for *.
C17_MarkedLists ==
  \A fn \in {"toBulletList", "toCheckboxList", "toAscendingList", "toDescendingList"} :
    calls = <<[fn |-> fn, arg |-> ""]>> =>
      LET kept == NonBlankInputLines(text)
          out == InputLines(cur)
      IN IF Len(kept) = 0 THEN cur = <<>>
         ELSE /\ Len(out) = Len(kept)
              /\ \A k \in 1..Len(kept) :
                   out[k] = MarkerOf(fn) \o <<32>> \o Trimmed(kept[k])

\* C17 witness: toBulletList("a\n\nb") is two bullet lines, "a" and "b"
C17_Witness ==
  /\ calls = <<[fn |-> "toBulletList", arg |-> ""]>>
  /\ text = <<97, 10, 10, 98>>
  /\ cur = <<\H2022, 32, 97, 10, \H2022, 32, 98>>

\* C18: toNumberedList prefixes the k-th non-blank line (trimmed) with "k. ",
\* k = 1, 2, 3, ... over the non-blank lines only: blank lines leave no gap
\* and the last ordinal is the number of output lines.
C18_NumberedList ==
  calls = <<[fn |-> "toNumberedList", arg |-> ""]>> =>
    LET kept == NonBlankInputLines(text)
        out == InputLines(cur)
    IN IF Len(kept) = 0 THEN cur = <<>>
       ELSE /\ Len(out) = Len(kept)
            /\ \A k \in 1..Len(kept) :
                 \E n \in 1..Len(out[k]) :
                   /\ \A i \in 1..n : out[k][i] \in 48..57
                   /\ DecimalValue(SubSeq(out[k], 1, n)) = k
                   /\ SubSeq(out[k], n + 1, Len(out[k])) = <<46, 32>> \o Trimmed(kept[k])

\* C18 witness: toNumberedList("a\n\nb") is "1. a\n2. b"
C18_Witness ==
  /\ calls = <<[fn |-> "toNumberedList", arg |-> ""]>>
  /\ text = <<97, 10, 10, 98>>
  /\ cur = <<49, 46, 32, 97, 10, 50, 46, 32, 98>>

-----------------------------------------------------------------------------
(* copyStyledText: properties *)

\* C19: copyStyledText never throws to its caller: its promise fulfils with
\* true when the clipboard write succeeds and with false when the write
\* rejects or the clipboard API is unavailable, after exactly one attempt
\* (no retry).
C19_CopyNeverThrows ==
  /\ writeCalls <= 1
  /\ copyPc = "settled" =>
       /\ copyResult.state = "fulfilled"
       /\ copyResult.value = (clipboard = <<text>>)
       /\ ~copyResult.value => clipboard = <<>>
       /\ ~clipboardApi => ~copyResult.value
       /\ writeCalls = IF clipboardApi THEN 1 ELSE 0

\* C19 witness: the one write was attempted and rejected, the call gave false
C19_Witness ==
  /\ copyPc = "settled"
  /\ clipboardApi
  /\ writeCalls = 1
  /\ clipboard = <<>>
  /\ copyResult = [state |-> "fulfilled", value |-> FALSE]

-----------------------------------------------------------------------------
(* App lock: properties *)

\* C20: the mutators do not undo each other under interleaving: once
\* disableAppLock has completed and no enableAppLock is called afterwards
\* (nor was one called or in flight while it ran), the stored settings keep
\* isEnabled = false and pinHash = null, even if another mutator that
\* started before the disable finishes after it.
C20_DisableSticks ==
  disabledSince =>
    /\ getAppLockSettings.isEnabled = FALSE
    /\ getAppLockSettings.pinHash = null

\* the call that returns in this step, if it ran with no other call in flight
ReturnsAlone(c) ==
  /\ c \in inflight
  /\ returned'.id # returned.id
  /\ returned'.id = c.id
  /\ solo.id = c.id

StoredAfter ==
  IF "appLockSettings" \in DOMAIN storage' THEN storage'["appLockSettings"] ELSE DEFAULT_SETTINGS

\* C21: changePin(oldPin, newPin) returns false and leaves the stored
\* settings unchanged when no PIN hash is stored or the hash of oldPin is not
\* the stored hash; when it returns true the stored pinHash is the hash of
\* newPin, lastUnlockTime is the time read during the call and every other
\* field is as it was before the call.  Stated for a call that runs with no
\* other call in flight.
C21_ChangePin ==
  [][\A c \in inflight :
       (c.op = "changePin" /\ ReturnsAlone(c)) =>
         /\ returned'.value \in BOOLEAN
         /\ (solo.before.pinHash = null \/ hashPin(c.pin) # solo.before.pinHash) =>
              returned'.value = FALSE
         /\ returned'.value = FALSE => StoredAfter = solo.before
         /\ returned'.value = TRUE =>
              /\ StoredAfter.pinHash = hashPin(c.newPin)
              /\ StoredAfter.lastUnlockTime \in solo.since..now'
              /\ StoredAfter.isEnabled = solo.before.isEnabled
              /\ StoredAfter.securityQuestions = solo.before.securityQuestions
              /\ StoredAfter.biometricEnabled = solo.before.biometricEnabled
              /\ StoredAfter.lockTiming = solo.before.lockTiming]_vars

\* C21 witness: changePin('1234', '5678') has returned true after running
\* alone on an enabled lock, and the hash of '5678' is stored
C21_Witness ==
  /\ returned.op = "changePin"
  /\ returned.value = TRUE
  /\ solo.id = returned.id
  /\ solo.before.isEnabled
  /\ solo.before.pinHash = hashPin("1234")
  /\ inflight = {}
  /\ getAppLockSettings.pinHash = hashPin("5678")

\* the configured delay in milliseconds, as claimed
ClaimedDelay(timing) ==
  CASE timing = "immediately" -> 0
    [] timing = "30seconds" -> 30000
    [] timing = "1minute" -> 60000
    [] timing = "5minutes" -> 300000
    [] timing = "15minutes" -> 900000
    [] timing = "30minutes" -> 1800000

ClaimedLocked(settings, t) ==
  CASE ~settings.isEnabled \/ settings.pinHash = null -> FALSE
    [] OTHER ->
       CASE settings.lastUnlockTime = nullTime -> TRUE
         [] OTHER -> t - settings.lastUnlockTime >= ClaimedDelay(settings.lockTiming)

\* records with and without a lock, a PIN hash and an unlock time
AnySettings ==
  {[isEnabled |-> e, pinHash |-> h, securityQuestions |-> <<>>,
    biometricEnabled |-> FALSE, lockTiming |-> timing, lastUnlockTime |-> u] :
     e \in BOOLEAN, h \in {null, hashPin("1234")}, timing \in LockTiming,
     u \in {nullTime, 1, 2}}

\* the instants around every claimed delay after an unlock at time 1 or 2
ClaimedInstants ==
  {1, 2} \cup UNION {{ClaimedDelay(timing), ClaimedDelay(timing) + 1, ClaimedDelay(timing) + 2} :
                       timing \in LockTiming}

\* the function computes the claimed result for every record at every instant
LockedAsClaimed ==
  \A settings \in AnySettings, t \in ClaimedInstants :
    shouldAppBeLocked(settings, t) = ClaimedLocked(settings, t)

\* C22: shouldAppBeLocked returns false whenever the lock is disabled or no
\* PIN hash is stored; otherwise true when no unlock time is recorded;
\* otherwise true exactly when now - lastUnlockTime is at least the
\* configured delay (0 ms, 30 s, 1, 5, 15 or 30 minutes).  So after
\* updateLastUnlockTime with a non-zero delay the app is reported unlocked
\* until the delay has elapsed and locked from then on.
C22_ShouldAppBeLocked ==
  [][\A c \in inflight :
       (c.op = "shouldAppBeLocked" /\ returned'.id # returned.id /\ returned'.id = c.id) =>
         /\ returned'.value = ClaimedLocked(getAppLockSettings, now)
         /\ LockedAsClaimed]_vars

\* C22 witness: updateLastUnlockTime stored time 2 under a 30 s delay, and a
\* call of shouldAppBeLocked made 30 s later has returned true
C22_Witness ==
  /\ returned.op = "shouldAppBeLocked"
  /\ returned.value = TRUE
  /\ inflight = {}
  /\ started = 2
  /\ getAppLockSettings.isEnabled
  /\ getAppLockSettings.lockTiming = "30seconds"
  /\ getAppLockSettings.lastUnlockTime = 2
  /\ now = 30002

\* C23: in every reachable state of the stored settings, under any sequence
\* and interleaving of enableAppLock, disableAppLock, setBiometricEnabled,
\* setLockTiming, updateLastUnlockTime, changePin and
\* resetPinWithSecurityQuestions, isEnabled = true implies pinHash is not
\* null.
C23_EnabledHasPin ==
  getAppLockSettings.isEnabled => getAppLockSettings.pinHash # null

\* C23 witness: a stale write has enabled the lock again after a completed
\* disableAppLock, and the record stored holds its PIN hash
C23_Witness ==
  /\ disabledSince
  /\ getAppLockSettings.isEnabled
  /\ getAppLockSettings.pinHash = hashPin("1234")

-----------------------------------------------------------------------------
(* Sync conflicts: properties *)

\* C24: after any sequence of addConflict, addConflicts, resolveConflict and
\* clearAllConflicts the pending list holds at most one conflict per id.
C24_OnePerId ==
  \A i, j \in DOMAIN pendingConflicts :
    pendingConflicts[i].id = pendingConflicts[j].id => i = j

\* C25: when addConflict, addConflicts, resolveConflict or clearAllConflicts
\* returns, every listener registered at that moment has been called and the
\* last snapshot it received is the pending list of that moment, also when a
\* listener calls one of these operations from inside its callback.
C25_ListenersCurrent ==
  [][(stack # <<>> /\ stack' = Tail(stack)) =>
       \A i \in DOMAIN conflictListeners' :
         conflictListeners'[i] # deleted =>
           /\ conflictListeners'[i] \in DOMAIN received'
           /\ received'[conflictListeners'[i]] = pendingConflicts']_vars

\* the indices of the log entries of one kind
entries(log, kind) == {i \in DOMAIN log : log[i].kind = kind}

\* the evaluation of a task by a check found the recorded status different
\* from the current one
isCrossing(e) == e.recorded # "none" /\ e.recorded # statusOf(e.inside)

\* the direction of the evaluation is enabled in the task's reminder
directionEnabled(e) ==
  LET reminder == TodoItem(e.taskId).locationReminder[1]
  IN IF e.inside THEN reminder.triggerOnEnter ELSE reminder.triggerOnExit

\* every event follows an evaluation of the task by the same check that was
\* a crossing in an enabled direction; only tasks that are not completed
\* and have an enabled reminder are evaluated; the dispatched events are the
\* logged ones
EventsFollowCrossings(log, dispatched) ==
  /\ \A i \in entries(log, "event") :
       \E j \in entries(log, "eval") :
         /\ j < i
         /\ log[j].check = log[i].check
         /\ log[j].taskId = log[i].taskId
         /\ log[j].inside = log[i].inside
         /\ isCrossing(log[j])
         /\ directionEnabled(log[j])
  /\ \A j \in entries(log, "eval") :
       /\ ~TodoItem(log[j].taskId).completed
       /\ TodoItem(log[j].taskId).locationReminder # <<>>
       /\ TodoItem(log[j].taskId).locationReminder[1].enabled
  /\ Len(dispatched) = Cardinality(entries(log, "event"))
  /\ \A n \in DOMAIN dispatched :
       \E i \in entries(log, "event") :
         /\ Cardinality({k \in entries(log, "event") : k <= i}) = n
         /\ dispatched[n].taskId = log[i].taskId
         /\ dispatched[n].action = IF log[i].inside THEN "Arrived at" ELSE "Left"

\* the status of the task recorded after the step is the one the check saw
recordedAfter(taskId, isInside) ==
  /\ taskId \in DOMAIN geofenceStates'
  /\ geofenceStates'[taskId].wasInside = isInside

\* C26: an event is dispatched for a task only after the same check found a
\* recorded status that differs from the current one, in a direction the
\* reminder enables; a check that finds no recorded status records the
\* current one and dispatches nothing; on a crossing the recorded status
\* becomes the current one, at once when no event is due and when the await
\* of the notification returns otherwise; completed tasks and tasks without
\* an enabled reminder are never evaluated.
C26_GeofenceEvents ==
  [][/\ EventsFollowCrossings(observed', events')
     /\ \A j \in entries(observed', "eval") \ DOMAIN observed :
          LET e == observed'[j]
          IN /\ e.recorded = "none" => recordedAfter(e.taskId, e.inside) /\ events' = events
             /\ isCrossing(e) =>
                  IF directionEnabled(e)
                  THEN \E c \in checks' : /\ c.id = e.check
                                          /\ c.task.id = e.taskId
                                          /\ c.pc = "haptics"
                  ELSE recordedAfter(e.taskId, e.inside) /\ events' = events
     /\ \A c \in checks \ checks' :
          c.pc = "dispatched" => recordedAfter(c.task.id, c.isInside)]_vars

\* a check entered the geofence of "both", dispatched 'Arrived at', stored the
\* status and went on to "exit", whose crossing it recorded without an event
C26_Witness ==
  /\ checks = {}
  /\ events = <<[taskId |-> "both", action |-> "Arrived at"]>>
  /\ "exit" \in DOMAIN geofenceStates
  /\ geofenceStates["exit"].wasInside
  /\ geofenceStates["both"].wasInside
  /\ \E j \in entries(observed, "eval") :
       /\ observed[j].taskId = "exit"
       /\ isCrossing(observed[j])
       /\ observed[j].inside

\* the evaluation that led to the logged event
evaluationOf(log, i) ==
  CHOOSE j \in entries(log, "eval") :
    log[j].check = log[i].check /\ log[j].taskId = log[i].taskId

\* C27: between two 'Arrived at' events for the same task (counted from the
\* evaluation that led to the first one) some check has observed the task
\* outside its geofence, so one crossing gives at most one event, overlapping
\* position callbacks included.
C27_OneEventPerCrossing ==
  \A i, j \in entries(observed, "event") :
    (/\ i < j
     /\ observed[i].taskId = observed[j].taskId
     /\ observed[i].inside
     /\ observed[j].inside)
    => \E k \in entries(observed, "eval") :
         /\ evaluationOf(observed, i) < k
         /\ k < j
         /\ observed[k].taskId = observed[i].taskId
         /\ ~observed[k].inside

\* the number of listeners added for the event
listenerCount(event) == Cardinality({i \in DOMAIN pushListeners : pushListeners[i] = event})

\* C28: each of the four push listeners is added at most once, however many
\* times initialize is called, calls that overlap an earlier call and calls
\* after a failed call included.
C28_ListenersOnce ==
  \A event \in PushEvents : listenerCount(event) <= 1

====
